---- MODULE Spec2Model ----
(***************************************************************************)
(* A model of dbus/dbus-server.c: the listener orchestrator                *)
(* (dbus_server_listen) and the DBusServer object's reference-counted,     *)
(* lock-protected lifecycle.                                               *)
(*                                                                         *)
(* Three specifications share the module:                                  *)
(*   SpecListen  one call of dbus_server_listen, over every parse result   *)
(*               and every outcome of every listener backend;              *)
(*   Spec        one DBusServer from _dbus_server_init_base to its         *)
(*               finalization, driven by several threads that use the      *)
(*               watch and timeout operations;                             *)
(*   SpecApi     the same lifecycle with the queries, the new-connection   *)
(*               handler or the authentication mechanisms.                 *)
(***************************************************************************)
EXTENDS Integers, Sequences, FiniteSets, TLC

(***************************************************************************)
(* Bounds of the model.                                                    *)
(***************************************************************************)
\* the longest parsed address (number of entries) the listen model explores
MaxEntries == 2
\* the most references application threads ever hold at once
MaxRefs == 2

(***************************************************************************)
(* Build configuration.  The source compiles differently under             *)
(* DBUS_DISABLE_ASSERT (the _dbus_assert family disappears),               *)
(* DBUS_DISABLE_CHECKS (the _dbus_return_if_fail family disappears) and    *)
(* DBUS_HAVE_ATOMIC_INT (the reference count is changed atomically, not    *)
(* under the server mutex).  A behaviour fixes the three in its initial    *)
(* state.                                                                  *)
(***************************************************************************)
VARIABLES
  asserts_enabled,      \* built without DBUS_DISABLE_ASSERT
  checks_enabled,       \* built without DBUS_DISABLE_CHECKS
  have_atomic_int       \* built with DBUS_HAVE_ATOMIC_INT

bvars == <<asserts_enabled, checks_enabled, have_atomic_int>>

(***************************************************************************)
(* DBusError values.  A set error carries its name and message; `at' names *)
(* the backend attempt <<i, j>> that produced it, so that "exactly that    *)
(* backend's error" can be told from any other error of the same name.     *)
(***************************************************************************)
NoError == [name |-> "", msg |-> "", at |-> <<>>]

dbus_error_is_set(e) == e # NoError

\* DBUS_ERROR_BAD_ADDRESS
DBUS_ERROR_BAD_ADDRESS == "org.freedesktop.DBus.Error.BadAddress"

\* the error dbus_parse_address leaves on failure
ParseError == [name |-> DBUS_ERROR_BAD_ADDRESS, msg |-> "parse", at |-> <<>>]

\* the error a backend sets with a BAD_ADDRESS result for attempt <<i, j>>
BackendBadAddress(i, j) ==
  [name |-> DBUS_ERROR_BAD_ADDRESS, msg |-> "backend", at |-> <<i, j>>]

\* the error a backend sets with a DID_NOT_CONNECT result for attempt <<i, j>>
BackendDidNotConnect(i, j) ==
  [name |-> "org.freedesktop.DBus.Error.AddressInUse", msg |-> "backend",
   at |-> <<i, j>>]

\* dbus_set_error (error, DBUS_ERROR_BAD_ADDRESS, "Unknown address type '%s'", method)
UnknownAddressType(method) ==
  [name |-> DBUS_ERROR_BAD_ADDRESS,
   msg |-> "Unknown address type '" \o method \o "'", at |-> <<>>]

\* dbus_set_error (error, DBUS_ERROR_BAD_ADDRESS, "Empty address '%s'", address)
EmptyAddress ==
  [name |-> DBUS_ERROR_BAD_ADDRESS, msg |-> "Empty address ''", at |-> <<>>]

(***************************************************************************)
(* dbus_server_listen                                                      *)
(***************************************************************************)
VARIABLES
  l_pc,                 \* "start", "loop", "out", "ret", "done", "abort"
  error_supplied,       \* the caller passed error # NULL
  parsed,               \* "none", or dbus_parse_address's "ok" or "failed"
  entries,              \* the parsed entries (their methods); <<>> before parsing
  len,                  \* number of parsed entries
  entries_freed,        \* calls of dbus_address_entries_free on `entries'
  l_i, l_j,             \* the loop counters i and j
  l_server,             \* the local `server': NULL or the backend's server
  l_error,              \* *error, the caller's error (NoError when error = NULL)
  first_connect_error,  \* the local first_connect_error
  handled_once,         \* the local handled_once
  calls,                \* every backend attempt so far: <<i, j, result>>
  l_ret,                \* "none" until the return; then NULL or a server
  abort_line            \* the line of the failed assertion, 0 if none

lvars == <<l_pc, error_supplied, parsed, entries, len, entries_freed, l_i, l_j,
           l_server, l_error, first_connect_error, handled_once, calls,
           l_ret, abort_line>>

(***************************************************************************)
(* The DBusServer object: its state                                        *)
(***************************************************************************)
\* the deepest nesting of calls an application function makes back into the
\* library from inside a call-out
MaxReentry == 1

\* the application threads that share the server
Threads == {1, 2}

VARIABLES
  s_pc,            \* "uninit", "live", "init_failed", "finalized"
  init_address,    \* the address passed to _dbus_server_init_base
  refcount,        \* server->refcount.value
  disconnected,    \* server->disconnected
  address,         \* server->address (NULL or a string)
  guid,            \* server->guid, the generated identifier's bytes
  guid_hex,        \* server->guid_hex
  mutex,           \* server->mutex: NULL or the mutex
  lock_holder,     \* the threads holding server->mutex: {} or {t}
  registry,        \* server->watches and server->timeouts: NULL or the list
  finalize_count,  \* calls of server->vtable->finalize
  teardown_count,  \* calls of server->vtable->disconnect
  stack,           \* per thread: the frames of the calls in progress
  held,            \* per thread: the references it owns
  aborted,         \* 0, or the line of the assertion that ended the process
  uaf              \* a thread touched the server after it was finalized

svars == <<s_pc, init_address, refcount, disconnected, address, guid,
           guid_hex, mutex, lock_holder, registry, finalize_count, teardown_count, stack,
           held, aborted, uaf>>

\* the most new-connection triples a behaviour installs
MaxInstalls == 1

VARIABLES
  api,                                \* the group of operations the application uses
  new_connection_function,            \* server->new_connection_function
  new_connection_data,                \* server->new_connection_data
  new_connection_free_data_function,  \* server->new_connection_free_data_function
  installs,        \* per triple installed so far: it came with a destructor
  destroyed,       \* per triple installed so far: destructor calls on its data
  auth_mechanisms, \* server->auth_mechanisms: NULL or the copied list
  slot_allocator,  \* the global slot_allocator: per slot id its reference count
  slot_p,          \* per slot variable of the application: -1 or its slot id
  slot_list,       \* per server: server->slot_list, per slot id (data, destructor)
  last_set         \* per server and slot id: data of the last successful set_data

avars == <<api, new_connection_function, new_connection_data,
           new_connection_free_data_function, installs, destroyed,
           auth_mechanisms, slot_allocator, slot_p, slot_list, last_set>>

\* the variables of avars the application's calls change
afields == <<new_connection_function, new_connection_data,
             new_connection_free_data_function, installs, destroyed,
             auth_mechanisms, slot_allocator, slot_p, slot_list, last_set>>

\* the data slots: the global allocator, the application's slot variables,
\* the servers' slot lists
dvars == <<slot_allocator, slot_p, slot_list, last_set>>

(***************************************************************************)
(* The process around the server: the endpoints its transports have bound, *)
(* and the position of _dbus_server_test, which listens, disconnects and   *)
(* releases in a loop                                                      *)
(***************************************************************************)
VARIABLES
  bound,   \* the endpoints bound by the process's listening transports
  t_pc,    \* _dbus_server_test: its next statement ("idle" when it does not run)
  t_n      \* _dbus_server_test: the calls of dbus_server_listen made so far

tvars == <<bound, t_pc, t_n>>

(***************************************************************************)
(* _dbus_server_init_base: how the call on the server ended                *)
(***************************************************************************)
VARIABLES
  init_ret         \* value: "none" before the call, then "TRUE" or "FALSE";
                   \* step: the step that failed, "none" if none did;
                   \* acquired, freed: the sub-resources the call acquired
                   \* and those it released before it returned

ivars == <<init_ret>>

vars == <<bvars, lvars, svars, avars, tvars, ivars>>

NULL == "NULL"

\* the address methods the model draws entries from
Methods == {"tcp", "unix", "bogus"}

\* DBusServerListenResult
DBUS_SERVER_LISTEN_OK == "OK"
DBUS_SERVER_LISTEN_BAD_ADDRESS == "BAD_ADDRESS"
DBUS_SERVER_LISTEN_NOT_HANDLED == "NOT_HANDLED"
DBUS_SERVER_LISTEN_DID_NOT_CONNECT == "DID_NOT_CONNECT"

DBusServerListenResult ==
  {DBUS_SERVER_LISTEN_OK, DBUS_SERVER_LISTEN_BAD_ADDRESS,
   DBUS_SERVER_LISTEN_NOT_HANDLED, DBUS_SERVER_LISTEN_DID_NOT_CONNECT}

\* the table listen_funcs in a build with DBUS_BUILD_TESTS, by backend
listen_funcs ==
  <<"_dbus_server_listen_socket", "_dbus_server_listen_platform_specific",
    "_dbus_server_listen_debug_pipe">>

\* _DBUS_N_ELEMENTS (listen_funcs)
N_listen_funcs == Len(listen_funcs)

\* every address the parser can hand back with at most MaxEntries entries
ParsedAddresses ==
  UNION {[1..n -> Methods] : n \in 0..MaxEntries}

\* the server a backend creates for attempt <<i, j>>
ServerOf(i, j) == "server@" \o ToString(i) \o "." \o ToString(j)

\* dbus_move_error (src, dest) as dbus_server_listen uses it on the caller's
\* error: with dest = NULL the source is freed and nothing is stored
MoveToCaller(src) == IF error_supplied THEN src ELSE NoError

\* dbus_set_error on the caller's error as a mutant would do it: nothing stored
SetCallerError_Dropped(e) == NoError

\* dbus_set_error (error, ...) on the caller's error: nothing with error = NULL
SetCallerError(e) == IF error_supplied THEN e ELSE NoError

InitListen ==
  /\ l_pc = "start"
  /\ error_supplied \in BOOLEAN
  /\ parsed = "none"
  /\ entries = <<>>
  /\ len = 0
  /\ entries_freed = 0
  /\ l_i = 0
  /\ l_j = 0
  /\ l_server = NULL
  /\ l_error = NoError
  /\ first_connect_error = NoError
  /\ handled_once = FALSE
  /\ calls = <<>>
  /\ l_ret = "none"
  /\ abort_line = 0

\* lines 489-490 with dbus_parse_address failing, as a mutant would have it:
\* the failure is ignored and the scan is entered with no entries
ParseFailure_Ignored ==
  /\ l_error' = SetCallerError(ParseError)
  /\ l_ret' = l_ret
  /\ l_pc' = "out"

\* lines 489-490: dbus_parse_address fails: return NULL with the parser's error
ParseFailure ==
  /\ l_error' = SetCallerError(ParseError)
  /\ l_ret' = NULL
  /\ l_pc' = "done"

ListenParseFails ==
  /\ l_pc = "start"
  /\ UNCHANGED <<ivars, bvars, tvars, svars, avars>>
  /\ parsed' = "failed"
  /\ ParseFailure
  /\ UNCHANGED <<error_supplied, entries, len, entries_freed, l_i, l_j,
                 l_server, first_connect_error, handled_once, calls,
                 abort_line>>

\* lines 489-496: dbus_parse_address succeeds; the locals are initialised and
\* the outer loop is entered (or left at once when len = 0)
ListenParsed ==
  /\ l_pc = "start"
  /\ UNCHANGED <<ivars, bvars, tvars, svars, avars>>
  /\ parsed' = "ok"
  /\ \E a \in ParsedAddresses :
       /\ entries' = a
       /\ len' = Len(a)
       /\ l_pc' = IF Len(a) > 0 THEN "loop" ELSE "out"
  /\ l_server' = NULL
  /\ first_connect_error' = NoError
  /\ handled_once' = FALSE
  /\ l_i' = 0
  /\ l_j' = 0
  /\ UNCHANGED <<error_supplied, entries_freed, l_error, calls, l_ret,
                 abort_line>>

\* the for-loop control as a mutant would have it, with the loops exchanged:
\* ++i, and at the end of the entries ++j and i = 0
ListenAdvance_BackendMajor ==
  IF l_i + 1 < len
    THEN /\ l_i' = l_i + 1
         /\ l_j' = l_j
         /\ l_pc' = "loop"
    ELSE /\ l_i' = 0
         /\ l_j' = l_j + 1
         /\ l_pc' = IF l_j + 1 < N_listen_funcs THEN "loop" ELSE "out"

\* the for-loop control after an attempt that keeps trying: ++j, and at the
\* end of the inner loop ++i and j = 0 (lines 496, 500, 545-549)
ListenAdvance ==
  IF l_j + 1 < N_listen_funcs
    THEN /\ l_j' = l_j + 1
         /\ l_i' = l_i
         /\ l_pc' = "loop"
    ELSE /\ l_j' = 0
         /\ l_i' = l_i + 1
         /\ l_pc' = IF l_i + 1 < len THEN "loop" ELSE "out"

\* DBUS_SERVER_LISTEN_OK as a mutant would handle it: the server is kept
\* but the scan goes on
OnListenOk_KeepsScanning ==
  /\ l_server' = ServerOf(l_i, l_j)
  /\ handled_once' = TRUE
  /\ ListenAdvance
  /\ UNCHANGED <<l_error, first_connect_error>>

\* lines 510-516: DBUS_SERVER_LISTEN_OK: goto out
OnListenOk ==
  /\ l_server' = ServerOf(l_i, l_j)
  /\ handled_once' = TRUE
  /\ l_pc' = "out"
  /\ UNCHANGED <<l_i, l_j, l_error, first_connect_error>>

\* DBUS_SERVER_LISTEN_BAD_ADDRESS as a mutant would handle it: a return on
\* the spot, past the `out' label and its dbus_address_entries_free
OnListenBadAddress_ReturnsAtOnce ==
  /\ l_error' = MoveToCaller(BackendBadAddress(l_i, l_j))
  /\ handled_once' = TRUE
  /\ l_pc' = "ret"
  /\ UNCHANGED <<l_i, l_j, l_server, first_connect_error>>

\* lines 517-524: DBUS_SERVER_LISTEN_BAD_ADDRESS: the backend's error is
\* moved to the caller's; goto out
OnListenBadAddress ==
  /\ l_error' = MoveToCaller(BackendBadAddress(l_i, l_j))
  /\ handled_once' = TRUE
  /\ l_pc' = "out"
  /\ UNCHANGED <<l_i, l_j, l_server, first_connect_error>>

\* lines 525-531: DBUS_SERVER_LISTEN_NOT_HANDLED: keep trying
OnListenNotHandled ==
  /\ ListenAdvance
  /\ UNCHANGED <<l_server, l_error, first_connect_error, handled_once>>

\* DBUS_SERVER_LISTEN_DID_NOT_CONNECT as a mutant would handle it: the
\* latest failure replaces the remembered one
OnListenDidNotConnect_KeepsLast ==
  /\ first_connect_error' = BackendDidNotConnect(l_i, l_j)
  /\ handled_once' = TRUE
  /\ ListenAdvance
  /\ UNCHANGED <<l_server, l_error>>

\* lines 532-544: DBUS_SERVER_LISTEN_DID_NOT_CONNECT: the first such error
\* is remembered, a later one is freed; keep trying
OnListenDidNotConnect ==
  /\ first_connect_error' =
       IF ~dbus_error_is_set(first_connect_error)
         THEN BackendDidNotConnect(l_i, l_j)
         ELSE first_connect_error
  /\ handled_once' = TRUE
  /\ ListenAdvance
  /\ UNCHANGED <<l_server, l_error>>

\* lines 502-544: one backend attempt, listen_funcs[j].func (entries[i], ...)
ListenTry ==
  /\ l_pc = "loop"
  /\ UNCHANGED <<ivars, bvars, tvars, svars, avars>>
  /\ l_i < len /\ l_j < N_listen_funcs
  /\ \E result \in DBusServerListenResult :
       /\ calls' = Append(calls, <<l_i, l_j, result>>)
       /\ CASE result = DBUS_SERVER_LISTEN_OK -> OnListenOk
            [] result = DBUS_SERVER_LISTEN_BAD_ADDRESS -> OnListenBadAddress
            [] result = DBUS_SERVER_LISTEN_NOT_HANDLED -> OnListenNotHandled
            [] result = DBUS_SERVER_LISTEN_DID_NOT_CONNECT ->
                 OnListenDidNotConnect
  /\ UNCHANGED <<error_supplied, parsed, entries, len, entries_freed, l_ret,
                 abort_line>>

\* the error of an address nobody handled, as a mutant would set it: it
\* names the last entry's method
UnhandledError_NamesLast ==
  IF len > 0
    THEN SetCallerError(UnknownAddressType(entries[len]))
    ELSE SetCallerError(EmptyAddress)

\* lines 553-566: the error of an address nobody handled
UnhandledError ==
  IF len > 0
    THEN SetCallerError(UnknownAddressType(entries[1]))
    ELSE SetCallerError(EmptyAddress)

\* lines 551-568: the `out' label, then dbus_address_entries_free (entries)
ListenOut ==
  /\ l_pc = "out"
  /\ UNCHANGED <<ivars, bvars, tvars, svars, avars>>
  /\ l_error' = IF ~handled_once THEN UnhandledError ELSE l_error
  /\ entries_freed' = entries_freed + 1
  /\ l_pc' = "ret"
  /\ UNCHANGED <<error_supplied, parsed, entries, len, l_i, l_j, l_server,
                 first_connect_error, handled_once, calls, l_ret, abort_line>>

\* lines 570-598: the return.  With the caller's error already set, the
\* remembered first_connect_error is left as it is, and
\* _DBUS_ASSERT_ERROR_IS_CLEAR (&first_connect_error) (line 588) fails when
\* it is still set.  The result is <<error, first_connect_error, line of the
\* failed assertion or 0>>.
ReturnNull ==
  LET already == error_supplied /\ dbus_error_is_set(l_error)
      err == IF already THEN l_error ELSE MoveToCaller(first_connect_error)
      fce == IF already THEN first_connect_error ELSE NoError
      line == IF ~asserts_enabled THEN 0
              ELSE IF error_supplied /\ ~dbus_error_is_set(first_connect_error)
                      /\ ~dbus_error_is_set(l_error) THEN 572
              ELSE IF dbus_error_is_set(fce) THEN 588
              ELSE IF error_supplied /\ ~dbus_error_is_set(err) THEN 589
              ELSE 0
  IN  <<err, fce, line>>

\* lines 593-597: a server is returned; _DBUS_ASSERT_ERROR_IS_CLEAR (error)
ReturnServer ==
  <<l_error, first_connect_error,
    IF asserts_enabled /\ dbus_error_is_set(l_error) THEN 595 ELSE 0>>

ListenReturn ==
  /\ l_pc = "ret"
  /\ UNCHANGED <<ivars, bvars, tvars, svars, avars>>
  /\ LET r == IF l_server = NULL THEN ReturnNull ELSE ReturnServer
     IN  /\ l_error' = r[1]
         /\ first_connect_error' = r[2]
         /\ abort_line' = r[3]
         /\ l_pc' = IF r[3] # 0 THEN "abort" ELSE "done"
         /\ l_ret' = IF r[3] # 0 THEN l_ret ELSE l_server
  /\ UNCHANGED <<error_supplied, parsed, entries, len, entries_freed, l_i,
                 l_j, l_server, handled_once, calls>>

ListenNext ==
  \/ ListenParseFails
  \/ ListenParsed
  \/ ListenTry
  \/ ListenOut
  \/ ListenReturn

(***************************************************************************)
(* The DBusServer object                                                   *)
(***************************************************************************)
\* the servers of the process: 1 is the server whose lifecycle is followed,
\* 2 a second server that stays alive and only carries slot data
Servers == {1, 2}

\* the slot variables of the application (the dbus_int32_t each subsystem
\* passes to dbus_server_allocate_data_slot by address)
SlotVars == {"a", "b"}

\* the slot ids in use when every slot variable is allocated
SlotIds == 0..(Cardinality(SlotVars) - 1)

\* a slot of a DBusDataSlotList that stores nothing
NoSlotData == [data |-> 0, free_data_func |-> 0]

\* a DBusDataSlotList right after _dbus_data_slot_list_init
EmptySlotList == [i \in SlotIds |-> NoSlotData]

\* the global allocator and the slot variables before any allocation
NoSlots ==
  /\ slot_allocator = <<>>
  /\ slot_p = [v \in SlotVars |-> -1]

\* _dbus_server_test does not run and the process has bound no endpoint
TestIdle ==
  /\ bound = {}
  /\ t_pc = "idle"
  /\ t_n = 0

\* the server object before _dbus_server_init_base has run on it
ServerUninit ==
  /\ s_pc = "uninit"
  /\ init_ret = [value |-> "none", step |-> "none", acquired |-> {},
                 freed |-> {}]
  /\ init_address = NULL
  /\ refcount = 0
  /\ disconnected = FALSE
  /\ address = NULL
  /\ guid = <<>>
  /\ guid_hex = NULL
  /\ mutex = NULL
  /\ lock_holder = {}
  /\ registry = [k \in {"watch", "timeout"} |-> NULL]
  /\ finalize_count = 0
  /\ teardown_count = 0
  /\ stack = [t \in Threads |-> <<>>]
  /\ held = [t \in Threads |-> 0]
  /\ aborted = 0
  /\ uaf = FALSE
  /\ new_connection_function = 0
  /\ new_connection_data = 0
  /\ new_connection_free_data_function = 0
  /\ installs = <<>>
  /\ destroyed = <<>>
  /\ auth_mechanisms = NULL
  /\ slot_list = [s \in Servers |-> EmptySlotList]
  /\ last_set = [s \in Servers |-> [i \in SlotIds |-> 0]]

(***************************************************************************)
(* SpecListen: one call of dbus_server_listen.                             *)
(***************************************************************************)
InitL ==
  /\ TestIdle
  /\ asserts_enabled \in BOOLEAN
  /\ checks_enabled = TRUE
  /\ have_atomic_int = TRUE
  /\ InitListen
  /\ ServerUninit
  /\ NoSlots
  /\ api = "registry"

SpecListen == InitL /\ [][ListenNext]_vars

(***************************************************************************)
(* The DBusServer object: construction                                     *)
(***************************************************************************)
\* the addresses the transports hand to _dbus_server_init_base
Addresses == <<"tcp:port=1234", "unix:path=./boogie">>

\* DBUS_UUID_LENGTH_BYTES: a DBusGUID is 128 bits
DBUS_UUID_LENGTH_BYTES == 16

\* the identifiers _dbus_generate_uuid may produce, of which the model
\* draws two: bytes 0, 17, 34, ... and bytes 255, 254, 253, ...
Guids ==
  <<[n \in 1..DBUS_UUID_LENGTH_BYTES |-> ((n - 1) * 17) % 256],
    [n \in 1..DBUS_UUID_LENGTH_BYTES |-> 256 - n]>>

\* the constructions the model explores: each address with its identifier
InitInputs == {<<Addresses[n], Guids[n]>> : n \in 1..2}

HexDigits ==
  <<"0", "1", "2", "3", "4", "5", "6", "7",
    "8", "9", "a", "b", "c", "d", "e", "f">>

\* one byte as two lowercase hex digits
HexByte(b) == HexDigits[(b \div 16) + 1] \o HexDigits[(b % 16) + 1]

\* _dbus_uuid_encode: the hex encoding of the identifier's bytes, in order
RECURSIVE _dbus_uuid_encode(_)
_dbus_uuid_encode(bytes) ==
  IF bytes = <<>> THEN ""
  ELSE HexByte(Head(bytes)) \o _dbus_uuid_encode(Tail(bytes))

\* copy_address_with_guid_appended as a mutant would build it: the
\* identifier first, the address after it
copy_address_with_guid_prepended(addr, hex) == "guid=" \o hex \o "," \o addr

\* copy_address_with_guid_appended (lines 59-85), when no allocation fails
copy_address_with_guid_appended(addr, hex) == addr \o ",guid=" \o hex

\* the steps of _dbus_server_init_base that can fail for lack of memory
InitFailures ==
  {"guid_hex", "encode", "address", "mutex", "watches", "timeouts"}

\* the same steps in the order of the code (lines 104-131)
InitSteps ==
  <<"guid_hex", "encode", "address", "mutex", "watches", "timeouts">>

InitStepIndex(s) == CHOOSE k \in 1..Len(InitSteps) : InitSteps[k] = s

\* lines 99-131 up to the step that fails ("none": no step fails): the
\* sub-resource fields of the server as they are when the code leaves the
\* straight line.  A step that was not reached leaves its field as lines
\* 100-102 set it, or, for guid_hex and mutex, as the caller passed it.
InitFields(addr, g, fail) ==
  LET done(step) ==
        fail = "none" \/ InitStepIndex(step) < InitStepIndex(fail)
  IN  [guid_hex |-> IF done("encode") THEN _dbus_uuid_encode(g)
                    ELSE IF done("guid_hex") THEN ""
                    ELSE guid_hex,
       address |-> IF done("address")
                     THEN copy_address_with_guid_appended(
                            addr, _dbus_uuid_encode(g))
                     ELSE NULL,
       mutex |-> IF done("mutex") THEN "mutex" ELSE mutex,
       watches |-> IF done("watches") THEN "watches" ELSE NULL,
       timeouts |-> IF done("timeouts") THEN "timeouts" ELSE NULL]

\* the sub-resources the server holds with the fields f
InitAcquired(f) == {r \in DOMAIN f : f[r] # NULL}

\* the `failed' label as a mutant would have it: the watch list is left
\* alone
InitFailedCleanup_KeepsWatches(f) ==
  [fields |-> [guid_hex |-> NULL, address |-> NULL, mutex |-> NULL,
               watches |-> f.watches, timeouts |-> NULL],
   freed |-> {r \in {"mutex", "timeouts", "address"} : f[r] # NULL}
               \cup {"guid_hex"}]

\* the `failed' label (lines 143-159) on the fields f: the mutex is freed at
\* its location and the field cleared; the watch list, the timeout list and
\* the address are freed and cleared when they are there; the guid_hex string
\* is freed.  The result is the fields after it and the sub-resources freed.
InitFailedCleanup(f) ==
  [fields |-> [guid_hex |-> NULL, address |-> NULL, mutex |-> NULL,
               watches |-> NULL, timeouts |-> NULL],
   freed |-> {r \in {"mutex", "watches", "timeouts", "address"} : f[r] # NULL}
               \cup {"guid_hex"}]

\* the way out of _dbus_server_init_base when step `fail' fails with the
\* fields f: `return FALSE' on the spot for the guid_hex string (line 105),
\* `goto failed' for every later step; `return TRUE' (line 141) otherwise
InitExit(f, fail) ==
  IF fail \in {"none", "guid_hex"}
    THEN [fields |-> f, freed |-> {}]
    ELSE InitFailedCleanup(f)

\* _dbus_server_init_base (lines 96-160).  On success the caller of listen
\* owns the one reference; thread 1 stands for it.
InitBase ==
  /\ s_pc = "uninit"
  /\ lock_holder' = lock_holder
  /\ UNCHANGED <<bvars, tvars, lvars, avars>>
  /\ \E in \in InitInputs, fail \in InitFailures \cup {"none"} :
     LET addr == in[1]
         g == in[2]
         f == InitFields(addr, g, fail)
         out == InitExit(f, fail)
     IN
       /\ init_address' = addr
       /\ refcount' = 1
       /\ guid' = IF fail = "guid_hex" THEN guid ELSE g
       /\ guid_hex' = out.fields.guid_hex
       /\ address' = out.fields.address
       /\ mutex' = out.fields.mutex
       /\ registry' = [watch |-> out.fields.watches,
                       timeout |-> out.fields.timeouts]
       /\ init_ret' = [value |-> IF fail = "none" THEN "TRUE" ELSE "FALSE",
                       step |-> fail,
                       acquired |-> InitAcquired(f),
                       freed |-> out.freed]
       /\ IF fail = "none"
            THEN /\ s_pc' = "live"
                 /\ held' = [held EXCEPT ![1] = 1]
            ELSE /\ s_pc' = "init_failed"
                 /\ held' = held
  /\ UNCHANGED <<disconnected, finalize_count, teardown_count, stack, aborted, uaf>>

(***************************************************************************)
(* Threads and their calls in progress                                     *)
(***************************************************************************)
\* a call in progress: the function, the place in it, for a registry
\* operation the registry ("watch" or "timeout"), its local
\* `watches'/`timeouts', and its result `retval'/`result'
Frame(op, pc, kind) ==
  [op |-> op, pc |-> pc, kind |-> kind, w |-> NULL, res |-> "TRUE"]

Top(t) == stack[t][Len(stack[t])]

Push(t, f) == [stack EXCEPT ![t] = Append(@, f)]

Pop(t) == [stack EXCEPT ![t] = SubSeq(@, 1, Len(@) - 1)]

\* the top frame replaced
Goto(t, f) == [stack EXCEPT ![t] = Append(SubSeq(@, 1, Len(@) - 1), f)]

\* the top frame popped and the frame below it moved to `pc'
ReturnTo(t, pc) ==
  [stack EXCEPT ![t] =
     Append(SubSeq(@, 1, Len(@) - 2), [@[Len(@) - 1] EXCEPT !.pc = pc])]

\* the top frame popped and its result handed to the frame below it
ReturnValue(t, res) ==
  [stack EXCEPT ![t] =
     Append(SubSeq(@, 1, Len(@) - 2), [@[Len(@) - 1] EXCEPT !.res = res])]

RECURSIVE SumHeld(_)
SumHeld(S) ==
  IF S = {} THEN 0
  ELSE LET t == CHOOSE x \in S : TRUE IN held[t] + SumHeld(S \ {t})

\* the process runs: no assertion has failed, no freed memory was touched
Alive == aborted = 0 /\ ~uaf

\* thread t executes library code on a live server at place pc of op
At(t, op, pc) ==
  /\ Alive /\ s_pc = "live"
  /\ stack[t] # <<>>
  /\ Top(t).op = op /\ Top(t).pc = pc

\* thread t is in the last call-out of an operation that does not touch the
\* server afterwards: the destructor call of
\* dbus_server_set_new_connection_function (lines 834-835) or of
\* dbus_server_set_data (lines 1062-1067)
InLastCallout(t, op) ==
  /\ Alive
  /\ stack[t] # <<>>
  /\ Top(t).op = op /\ Top(t).pc = "callout"

\* the call-outs in progress on t's stack
Callouts(t) == {k \in 1..Len(stack[t]) : stack[t][k].pc = "callout"}

\* application code of thread t may call into the library: from its top
\* level, or from inside an application function during a call-out
CanCall(t) ==
  /\ Alive /\ s_pc = "live"
  /\ held[t] > 0
  /\ IF stack[t] = <<>> THEN TRUE
     ELSE /\ Top(t).pc = "callout"
          /\ Cardinality(Callouts(t)) <= MaxReentry

(***************************************************************************)
(* Reference counting and finalization                                     *)
(***************************************************************************)
\* what a failed _dbus_assert does: the process ends at that line (the
\* reference count is left to the caller)
AbortAt(line) ==
  /\ aborted' = line
  /\ UNCHANGED afields
  /\ UNCHANGED <<s_pc, init_address, disconnected, address, guid,
                 guid_hex, mutex, lock_holder, registry, finalize_count, teardown_count,
                 stack, held, uaf>>

\* the first assertion of _dbus_server_finalize_base that fails (lines
\* 174-177), or 0
FinalizeAssert ==
  IF ~asserts_enabled THEN 0
  ELSE IF checks_enabled /\ lock_holder # {} THEN 175
  ELSE IF ~disconnected THEN 177
  ELSE 0

\* `destroyed' after the destructor as a mutant would call it: on the data
\* just installed instead of the data it came with
FreeCalled_OnCurrent(free, data) ==
  IF free = 0 \/ new_connection_data = 0 THEN destroyed
  ELSE [destroyed EXCEPT ![new_connection_data] = @ + 1]

\* `if (old_free_function != NULL) (* old_free_function) (old_data)' (lines
\* 834-835): `destroyed' after it
FreeCalled(free, data) ==
  IF free = 0 \/ data = 0 THEN destroyed
  ELSE [destroyed EXCEPT ![data] = @ + 1]

\* _dbus_data_slot_list_free: the destructor of every pair stored under the
\* ids is called once; `d' is the count of destructor calls before it, the
\* value the count after it
RECURSIVE _dbus_data_slot_list_free(_, _, _)
_dbus_data_slot_list_free(list, ids, d) ==
  IF ids = {} THEN d
  ELSE LET i == CHOOSE x \in ids : TRUE
           e == list[i]
       IN _dbus_data_slot_list_free(
            list, ids \ {i},
            IF e.free_data_func = 0 \/ e.data = 0 THEN d
            ELSE [d EXCEPT ![e.data] = @ + 1])

\* the finalizer's calls into application code as a mutant would make them:
\* without the call of line 182
FinalizeDestroyed_SlotsOnly ==
  _dbus_data_slot_list_free(slot_list[1], SlotIds, destroyed)

\* lines 180-182: _dbus_data_slot_list_free (&server->slot_list), then
\* dbus_server_set_new_connection_function (server, NULL, NULL, NULL), which
\* calls the destructor of the new-connection data: `destroyed' after them
FinalizeDestroyed ==
  _dbus_data_slot_list_free(
    slot_list[1], SlotIds,
    FreeCalled(new_connection_free_data_function, new_connection_data))

\* (* server->vtable->finalize) (server), which chains up to
\* _dbus_server_finalize_base (lines 168-194) and frees the server; thread t
\* returns from the unref that called it
Finalize(t) ==
  IF FinalizeAssert # 0
    THEN AbortAt(FinalizeAssert)
    ELSE /\ lock_holder = {}
         /\ s_pc' = "finalized"
         /\ finalize_count' = finalize_count + 1
         /\ new_connection_function' = 0
         /\ new_connection_data' = 0
         /\ new_connection_free_data_function' = 0
         /\ destroyed' = FinalizeDestroyed
         /\ slot_list' = [slot_list EXCEPT ![1] = EmptySlotList]
         /\ UNCHANGED <<installs, auth_mechanisms, slot_allocator, slot_p,
                        last_set>>
         /\ address' = NULL
         /\ guid_hex' = NULL
         /\ mutex' = NULL
         /\ lock_holder' = {}
         /\ registry' = [k \in {"watch", "timeout"} |-> NULL]
         /\ stack' = Pop(t)
         /\ UNCHANGED <<init_address, disconnected, guid, teardown_count,
                        held, aborted, uaf>>

\* _dbus_server_ref_unlocked as a mutant would have it: no reference taken
_dbus_server_ref_unlocked_missing(count) == count

\* _dbus_server_ref_unlocked (lines 670-685): the count after it
_dbus_server_ref_unlocked(count) == count + 1

\* the application calls dbus_server_ref on a reference it holds
CallRef(t) ==
  /\ CanCall(t)
  /\ SumHeld(Threads) < MaxRefs
  /\ stack' = Push(t, Frame("ref", "entry", ""))
  /\ UNCHANGED <<ivars, bvars, tvars, lvars, avars>>
  /\ UNCHANGED <<s_pc, init_address, refcount, disconnected, address, guid,
                 guid_hex, mutex, lock_holder, registry, finalize_count, teardown_count,
                 held, aborted, uaf>>

\* dbus_server_ref (lines 606-623)
Ref(t) ==
  /\ At(t, "ref", "entry")
  /\ UNCHANGED <<ivars, bvars, tvars, lvars, avars>>
  /\ IF checks_enabled /\ refcount <= 0
       THEN /\ stack' = Pop(t)
            /\ UNCHANGED <<refcount, held, aborted>>
       ELSE /\ have_atomic_int \/ lock_holder = {}
            /\ IF ~have_atomic_int /\ asserts_enabled /\ refcount <= 0
                 THEN /\ aborted' = 616
                      /\ UNCHANGED <<refcount, held, stack>>
                 ELSE /\ refcount' = refcount + 1
                      /\ held' = [held EXCEPT ![t] = @ + 1]
                      /\ stack' = Pop(t)
                      /\ aborted' = aborted
  /\ UNCHANGED <<s_pc, init_address, disconnected, address, guid, guid_hex,
                 mutex, lock_holder, registry, finalize_count, teardown_count, uaf>>

\* the application calls dbus_server_unref, giving up a reference it holds
CallUnref(t) ==
  /\ CanCall(t)
  /\ held' = [held EXCEPT ![t] = @ - 1]
  /\ stack' = Push(t, Frame("unref", "entry", ""))
  /\ UNCHANGED <<ivars, bvars, tvars, lvars, avars>>
  /\ UNCHANGED <<s_pc, init_address, refcount, disconnected, address, guid,
                 guid_hex, mutex, lock_holder, registry, finalize_count, teardown_count,
                 aborted, uaf>>

\* the decrement as a mutant would do it: every release counts as the last
UnrefIsLast_Always(count) == TRUE

\* last_unref of dbus_server_unref and _dbus_server_unref_unlocked (lines
\* 642, 649, 703, 708), given the count after the decrement
UnrefIsLast(count) == count = 0

\* dbus_server_unref (lines 633-652): the checks and the decrement
UnrefDec(t) ==
  /\ At(t, "unref", "entry")
  /\ UNCHANGED <<ivars, bvars, tvars, lvars, avars>>
  /\ IF checks_enabled /\ refcount <= 0
       THEN /\ stack' = Pop(t)
            /\ UNCHANGED <<refcount, aborted>>
       ELSE /\ have_atomic_int \/ lock_holder = {}
            /\ IF ~have_atomic_int /\ asserts_enabled /\ refcount <= 0
                 THEN /\ aborted' = 646
                      /\ UNCHANGED <<refcount, stack>>
                 ELSE /\ refcount' = refcount - 1
                      /\ aborted' = aborted
                      /\ IF UnrefIsLast(refcount - 1)
                           THEN /\ stack' = Goto(t, [Top(t) EXCEPT !.pc = "last"])
                           ELSE /\ stack' = Pop(t)
  /\ UNCHANGED <<s_pc, init_address, disconnected, address, guid, guid_hex,
                 mutex, lock_holder, registry, finalize_count, teardown_count, held, uaf>>

\* the guard of the last release as a mutant would have it: none
LastUnrefAssert_Missing(line) == 0

\* _dbus_assert (server->disconnected) before the finalizer is called
\* (lines 657 and 713): the line that fails, or 0
LastUnrefAssert(line) == IF asserts_enabled /\ ~disconnected THEN line ELSE 0

\* dbus_server_unref (lines 654-662): the last release finalizes the server,
\* with no lock held
UnrefFinalize(t) ==
  /\ At(t, "unref", "last")
  /\ UNCHANGED <<ivars, bvars, tvars, lvars, api>>
  /\ refcount' = refcount
  /\ IF LastUnrefAssert(657) # 0
       THEN AbortAt(LastUnrefAssert(657))
       ELSE Finalize(t)

(***************************************************************************)
(* Disconnecting                                                           *)
(***************************************************************************)
\* the application calls dbus_server_disconnect
CallDisconnect(t) ==
  /\ CanCall(t)
  /\ stack' = Push(t, Frame("disconnect", "entry", ""))
  /\ UNCHANGED <<ivars, bvars, tvars, lvars, avars>>
  /\ UNCHANGED <<s_pc, init_address, refcount, disconnected, address, guid,
                 guid_hex, mutex, lock_holder, registry, finalize_count, teardown_count,
                 held, aborted, uaf>>

\* the flag as a mutant would set it: a second disconnect clears it again
DisconnectedAfter_Toggles(flag) == ~flag

\* the flag as a mutant would leave it: never set by disconnect
DisconnectedAfter_Unchanged(flag) == flag

\* server->disconnected after lines 742-748
DisconnectedAfter(flag) == IF ~flag THEN TRUE ELSE flag

\* dbus_server_disconnect (lines 734-746): the checks, SERVER_LOCK,
\* _dbus_server_ref_unlocked, and the flag, set before the teardown is called
DisconnectLock(t) ==
  /\ At(t, "disconnect", "entry")
  /\ mutex' = mutex
  /\ UNCHANGED <<ivars, bvars, tvars, lvars, avars>>
  /\ IF checks_enabled /\ refcount <= 0
       THEN /\ stack' = Pop(t)
            /\ UNCHANGED <<refcount, lock_holder, disconnected, aborted>>
       ELSE /\ lock_holder = {}
            /\ IF asserts_enabled /\ refcount <= 0
                 THEN /\ aborted' = 674
                      /\ UNCHANGED <<refcount, lock_holder, disconnected, stack>>
                 ELSE /\ lock_holder' = {t}
                      /\ refcount' = _dbus_server_ref_unlocked(refcount)
                      /\ disconnected' = DisconnectedAfter(disconnected)
                      /\ stack' =
                           Goto(t, [Top(t) EXCEPT !.pc =
                                      IF ~disconnected THEN "teardown"
                                      ELSE "unlock"])
                      /\ UNCHANGED <<aborted>>
  /\ UNCHANGED <<s_pc, init_address, address, guid, guid_hex, registry,
                 finalize_count, teardown_count, held, uaf>>

\* the addresses _dbus_server_test listens on (lines 1107-1113)
valid_addresses ==
  <<"tcp:port=1234",
    "unix:path=./boogie",
    "tcp:host=localhost,port=1234",
    "tcp:host=localhost,port=1234;tcp:port=5678",
    "tcp:port=1234;unix:path=./boogie">>

\* the endpoint a transport binds for an address: that of its first entry
Endpoint(addr) ==
  IF addr = "unix:path=./boogie" THEN "unix:./boogie" ELSE "tcp:1234"

\* the transport's listen on an address: it binds the endpoint, or fails
\* (did-not-connect) when the endpoint is in use
TransportListen(in_use, addr) ==
  IF Endpoint(addr) \in in_use
    THEN [result |-> DBUS_SERVER_LISTEN_DID_NOT_CONNECT, bound |-> in_use]
    ELSE [result |-> DBUS_SERVER_LISTEN_OK,
          bound |-> in_use \cup {Endpoint(addr)}]

\* the transport's teardown as a mutant would have it: the endpoint is kept
TransportDisconnect_Keeps(in_use, addr) == in_use

\* the transport's teardown: it closes what it listens on, which releases
\* the endpoint
TransportDisconnect(in_use, addr) == in_use \ {Endpoint(addr)}

\* (* server->vtable->disconnect) (server) (line 747), called with the lock
\* held: the transport's teardown, which may remove its watch through
\* _dbus_server_remove_watch
DisconnectTeardown(t) ==
  /\ At(t, "disconnect", "teardown")
  /\ lock_holder = {t}
  /\ UNCHANGED <<ivars, bvars, lvars, avars, t_pc, t_n>>
  /\ bound' = TransportDisconnect(bound, init_address)
  /\ teardown_count' = teardown_count + 1
  /\ \E removes \in BOOLEAN :
       stack' =
         IF removes
           THEN [stack EXCEPT ![t] =
                   Append(Append(SubSeq(@, 1, Len(@) - 1),
                                 [Top(t) EXCEPT !.pc = "unlock"]),
                          Frame("protected_change", "entry", "watch"))]
           ELSE Goto(t, [Top(t) EXCEPT !.pc = "unlock"])
  /\ UNCHANGED <<s_pc, init_address, refcount, disconnected, address, guid,
                 guid_hex, mutex, lock_holder, registry, finalize_count, held, aborted, uaf>>

\* dbus_server_disconnect (lines 750-751): SERVER_UNLOCK, then
\* dbus_server_unref releases the reference taken at line 738
DisconnectUnlock(t) ==
  /\ At(t, "disconnect", "unlock")
  /\ lock_holder = {t}
  /\ mutex' = mutex
  /\ UNCHANGED <<ivars, bvars, tvars, lvars, avars>>
  /\ lock_holder' = {}
  /\ stack' = Goto(t, Frame("unref", "entry", ""))
  /\ UNCHANGED <<s_pc, init_address, refcount, disconnected, address, guid,
                 guid_hex, registry, finalize_count, teardown_count, held,
                 aborted, uaf>>

(***************************************************************************)
(* Watches and timeouts: the detach / call out / reattach protocol         *)
(***************************************************************************)
RegistryKinds == {"watch", "timeout"}

RegistryFunctions == {"add", "remove", "toggle"}

\* a transport, from its watch or timeout handler, calls
\* _dbus_server_add_watch, _dbus_server_remove_watch,
\* _dbus_server_toggle_watch or their timeout counterparts
CallBackend(t) ==
  /\ CanCall(t)
  /\ stack[t] = <<>>
  /\ \E kind \in RegistryKinds :
       stack' = Push(t, Frame("backend", "lock", kind))
  /\ UNCHANGED <<ivars, bvars, tvars, lvars, avars>>
  /\ UNCHANGED <<s_pc, init_address, refcount, disconnected, address, guid,
                 guid_hex, mutex, lock_holder, registry, finalize_count, teardown_count,
                 held, aborted, uaf>>

\* the transport takes the server lock, as HAVE_LOCK_CHECK demands of it
\* (lines 267, 283, 306), and calls the registry operation
BackendLock(t) ==
  /\ At(t, "backend", "lock")
  /\ lock_holder = {}
  /\ mutex' = mutex
  /\ UNCHANGED <<ivars, bvars, tvars, lvars, avars>>
  /\ lock_holder' = {t}
  /\ stack' =
       [stack EXCEPT ![t] =
          Append(Append(SubSeq(@, 1, Len(@) - 1),
                        [Top(t) EXCEPT !.pc = "unlock"]),
                 Frame("protected_change", "entry", Top(t).kind))]
  /\ UNCHANGED <<s_pc, init_address, refcount, disconnected, address, guid,
                 guid_hex, registry, finalize_count, teardown_count, held,
                 aborted, uaf>>

\* the transport releases the server lock after the registry operation
BackendUnlock(t) ==
  /\ At(t, "backend", "unlock")
  /\ lock_holder = {t}
  /\ mutex' = mutex
  /\ UNCHANGED <<ivars, bvars, tvars, lvars, avars>>
  /\ lock_holder' = {}
  /\ stack' = Pop(t)
  /\ UNCHANGED <<s_pc, init_address, refcount, disconnected, address, guid,
                 guid_hex, registry, finalize_count, teardown_count, held,
                 aborted, uaf>>

\* the test as a mutant would make it: the registry is taken to be there
RegistryAvailable_Always(list) == TRUE

\* `if (watches)' / `if (timeouts)' (lines 227, 343, 870, 923)
RegistryAvailable(list) == list # NULL

\* protected_change_watch / protected_change_timeout (lines 226-231 and
\* 342-347, and 252-253, 368-369): with the lock held, either the registry is
\* detached, a reference taken and the lock released, or FALSE is returned
ProtectedChangeEntry(t) ==
  /\ At(t, "protected_change", "entry")
  /\ lock_holder = {t}
  /\ mutex' = mutex
  /\ UNCHANGED <<ivars, bvars, tvars, lvars, avars>>
  /\ LET f == Top(t) IN
       IF RegistryAvailable(registry[f.kind])
         THEN IF asserts_enabled /\ refcount <= 0
                THEN /\ aborted' = 674
                     /\ UNCHANGED <<registry, refcount, lock_holder, stack>>
                ELSE /\ registry' = [registry EXCEPT ![f.kind] = NULL]
                     /\ refcount' = _dbus_server_ref_unlocked(refcount)
                     /\ lock_holder' = {}
                     /\ stack' = Goto(t, [f EXCEPT !.pc = "callout",
                                                   !.w = registry[f.kind]])
                     /\ UNCHANGED <<aborted>>
         ELSE /\ stack' = ReturnValue(t, "FALSE")
              /\ UNCHANGED <<registry, refcount, lock_holder, aborted>>
  /\ UNCHANGED <<s_pc, init_address, disconnected, address, guid, guid_hex,
                 finalize_count, teardown_count, held, uaf>>

\* retval of lines 233-244 and 349-360: add_function's result, which is
\* FALSE when memory runs out; TRUE after remove_function and toggle_function
RegistryResults(fn) == IF fn = "add" THEN {"TRUE", "FALSE"} ELSE {"TRUE"}

\* lines 233-244 and 349-360: the registry function passed in (add, remove
\* or toggle) runs on the detached registry with no lock held, calling the
\* application's function
ProtectedChangeCallout(t) ==
  /\ At(t, "protected_change", "callout")
  /\ UNCHANGED <<ivars, bvars, tvars, lvars, avars>>
  /\ \E fn \in RegistryFunctions : \E res \in RegistryResults(fn) :
       stack' = Goto(t, [Top(t) EXCEPT !.pc = "relock", !.res = res])
  /\ UNCHANGED <<s_pc, init_address, refcount, disconnected, address, guid,
                 guid_hex, mutex, lock_holder, registry, finalize_count, teardown_count,
                 held, aborted, uaf>>

\* lines 246-250 and 362-366: SERVER_LOCK, the registry is reattached, and
\* _dbus_server_unref_unlocked (lines 692-721) drops the reference; were it
\* the last, the lock is released and the server finalized
ProtectedChangeRelock(t) ==
  /\ At(t, "protected_change", "relock")
  /\ lock_holder = {}
  /\ UNCHANGED <<ivars, bvars, tvars, lvars, api>>
  /\ LET f == Top(t) IN
       IF asserts_enabled /\ refcount <= 0
         THEN /\ refcount' = refcount
              /\ AbortAt(698)
         ELSE /\ refcount' = refcount - 1
              /\ IF UnrefIsLast(refcount - 1)
                   THEN IF LastUnrefAssert(713) # 0
                          THEN AbortAt(LastUnrefAssert(713))
                          ELSE Finalize(t)
                   ELSE /\ registry' = [registry EXCEPT ![f.kind] = f.w]
                        /\ mutex' = mutex
                        /\ lock_holder' = {t}
                        /\ stack' = ReturnValue(t, f.res)
                        /\ UNCHANGED afields
                        /\ UNCHANGED <<s_pc, init_address, disconnected,
                                       address, guid, guid_hex,
                                       finalize_count, teardown_count, held,
                                       aborted, uaf>>

\* the application calls dbus_server_set_watch_functions or
\* dbus_server_set_timeout_functions
CallSetFunctions(t) ==
  /\ CanCall(t)
  /\ \E kind \in RegistryKinds :
       stack' = Push(t, Frame("set_functions", "entry", kind))
  /\ UNCHANGED <<ivars, bvars, tvars, lvars, avars>>
  /\ UNCHANGED <<s_pc, init_address, refcount, disconnected, address, guid,
                 guid_hex, mutex, lock_holder, registry, finalize_count, teardown_count,
                 held, aborted, uaf>>

\* dbus_server_set_watch_functions / dbus_server_set_timeout_functions
\* (lines 867-872, 881-889 and 920-925, 934-942): under the lock the registry
\* is detached; if it was absent already the call returns FALSE
SetFunctionsLock(t) ==
  /\ At(t, "set_functions", "entry")
  /\ lock_holder = {}
  /\ UNCHANGED <<ivars, bvars, tvars, lvars, avars>>
  /\ LET f == Top(t) IN
       /\ registry' = [registry EXCEPT ![f.kind] = NULL]
       /\ IF RegistryAvailable(registry[f.kind])
            THEN /\ stack' = Goto(t, [f EXCEPT !.pc = "callout",
                                              !.w = registry[f.kind]])
            ELSE /\ stack' = Goto(t, [f EXCEPT !.pc = "return",
                                              !.res = "FALSE"])
  /\ UNCHANGED <<s_pc, init_address, refcount, disconnected, address, guid,
                 guid_hex, mutex, lock_holder, finalize_count, teardown_count, held,
                 aborted, uaf>>

\* lines 873-878 and 926-931: _dbus_watch_list_set_functions /
\* _dbus_timeout_list_set_functions run with no lock held, calling the
\* application's functions; they fail for lack of memory
SetFunctionsCallout(t) ==
  /\ At(t, "set_functions", "callout")
  /\ UNCHANGED <<ivars, bvars, tvars, lvars, avars>>
  /\ \E res \in {"TRUE", "FALSE"} :
       stack' = Goto(t, [Top(t) EXCEPT !.pc = "relock", !.res = res])
  /\ UNCHANGED <<s_pc, init_address, refcount, disconnected, address, guid,
                 guid_hex, mutex, lock_holder, registry, finalize_count, teardown_count,
                 held, aborted, uaf>>

\* lines 879, 886-889 and 932, 939-942: SERVER_LOCK, the registry is
\* reattached, SERVER_UNLOCK
SetFunctionsRelock(t) ==
  /\ At(t, "set_functions", "relock")
  /\ lock_holder = {}
  /\ UNCHANGED <<ivars, bvars, tvars, lvars, avars>>
  /\ registry' = [registry EXCEPT ![Top(t).kind] = Top(t).w]
  /\ stack' = Pop(t)
  /\ UNCHANGED <<s_pc, init_address, refcount, disconnected, address, guid,
                 guid_hex, mutex, lock_holder, finalize_count, teardown_count, held,
                 aborted, uaf>>

\* lines 881-889 and 934-942: the re-entrant call returns FALSE
SetFunctionsReturn(t) ==
  /\ At(t, "set_functions", "return")
  /\ stack' = Pop(t)
  /\ UNCHANGED <<ivars, bvars, tvars, lvars, avars>>
  /\ UNCHANGED <<s_pc, init_address, refcount, disconnected, address, guid,
                 guid_hex, mutex, lock_holder, registry, finalize_count,
                 teardown_count, held, aborted, uaf>>

(***************************************************************************)
(* The rest of the process                                                 *)
(***************************************************************************)
\* a thread inside a library call touches the server after its finalization
UseAfterFree(t) ==
  /\ Alive /\ s_pc = "finalized"
  /\ stack[t] # <<>>
  /\ ~InLastCallout(t, "set_new_connection_function")
  /\ ~InLastCallout(t, "set_data")
  /\ uaf' = TRUE
  /\ UNCHANGED <<ivars, bvars, tvars, lvars, avars>>
  /\ UNCHANGED <<s_pc, init_address, refcount, disconnected, address, guid,
                 guid_hex, mutex, lock_holder, registry, finalize_count, teardown_count,
                 stack, held, aborted>>

\* an idle thread hands one of its references to another thread
Give(t, u) ==
  /\ Alive /\ s_pc = "live"
  /\ t # u
  /\ stack[t] = <<>>
  /\ held[t] > 0
  /\ held' = [held EXCEPT ![t] = @ - 1, ![u] = @ + 1]
  /\ UNCHANGED <<ivars, bvars, tvars, lvars, avars>>
  /\ UNCHANGED <<s_pc, init_address, refcount, disconnected, address, guid,
                 guid_hex, mutex, lock_holder, registry, finalize_count, teardown_count,
                 stack, aborted, uaf>>

Init ==
  /\ TestIdle
  /\ asserts_enabled \in BOOLEAN
  /\ checks_enabled \in BOOLEAN
  /\ have_atomic_int \in BOOLEAN
  /\ InitListen
  /\ error_supplied = TRUE
  /\ ServerUninit
  /\ NoSlots
  /\ api = "registry"

Next ==
  \/ InitBase
  \/ \E t \in Threads : CallRef(t)
  \/ \E t \in Threads : Ref(t)
  \/ \E t \in Threads : CallUnref(t)
  \/ \E t \in Threads : UnrefDec(t)
  \/ \E t \in Threads : UnrefFinalize(t)
  \/ \E t \in Threads : CallDisconnect(t)
  \/ \E t \in Threads : DisconnectLock(t)
  \/ \E t \in Threads : DisconnectTeardown(t)
  \/ \E t \in Threads : DisconnectUnlock(t)
  \/ \E t \in Threads : CallBackend(t)
  \/ \E t \in Threads : BackendLock(t)
  \/ \E t \in Threads : BackendUnlock(t)
  \/ \E t \in Threads : ProtectedChangeEntry(t)
  \/ \E t \in Threads : ProtectedChangeCallout(t)
  \/ \E t \in Threads : ProtectedChangeRelock(t)
  \/ \E t \in Threads : CallSetFunctions(t)
  \/ \E t \in Threads : SetFunctionsLock(t)
  \/ \E t \in Threads : SetFunctionsCallout(t)
  \/ \E t \in Threads : SetFunctionsRelock(t)
  \/ \E t \in Threads : SetFunctionsReturn(t)
  \/ \E t \in Threads : UseAfterFree(t)
  \/ \E t, u \in Threads : Give(t, u)

Spec == Init /\ [][Next]_vars

(***************************************************************************)
(* The rest of the public interface: queries, the new-connection handler   *)
(* and the authentication mechanisms (SpecApi)                             *)
(***************************************************************************)
\* the groups of operations an application uses besides ref, unref and
\* disconnect (whose teardown removes the transport's watch through
\* protected_change_watch): a behaviour of SpecApi draws one of the first
\* three, a behaviour of Spec uses the watch and timeout operations
ApiGroups == {"query", "callback", "auth", "registry", "slots"}

\* SERVER_UNLOCK as a mutant would have it: left out
SERVER_UNLOCK_Missing(holder) == holder

\* SERVER_UNLOCK (server): the holders of the mutex after it
SERVER_UNLOCK(holder) == {}

\* what is left unchanged by an operation that touches only the lock, the
\* stacks and its own fields
ServerKept ==
  UNCHANGED <<s_pc, init_address, refcount, disconnected, address, guid,
              guid_hex, mutex, registry, finalize_count, teardown_count,
              held, aborted, uaf>>

\* the application calls dbus_server_get_is_connected
CallGetIsConnected(t) ==
  /\ CanCall(t)
  /\ api = "query"
  /\ stack' = Push(t, Frame("get_is_connected", "entry", ""))
  /\ UNCHANGED <<ivars, bvars, tvars, lvars, avars, lock_holder>>
  /\ ServerKept

\* the negation as a mutant would have it: forgotten
IsConnected_NotNegated(flag) == IF flag THEN "TRUE" ELSE "FALSE"

\* `retval = !server->disconnected' (line 767)
IsConnected(flag) == IF ~flag THEN "TRUE" ELSE "FALSE"

\* dbus_server_get_is_connected (lines 759-771): SERVER_LOCK, the flag is
\* read, SERVER_UNLOCK
GetIsConnected(t) ==
  /\ At(t, "get_is_connected", "entry")
  /\ lock_holder = {}
  /\ lock_holder' = SERVER_UNLOCK({t})
  /\ stack' = Goto(t, [Top(t) EXCEPT !.pc = "return",
                                     !.res = IsConnected(disconnected)])
  /\ UNCHANGED <<ivars, bvars, tvars, lvars, avars>>
  /\ ServerKept

\* the application calls dbus_server_get_address
CallGetAddress(t) ==
  /\ CanCall(t)
  /\ api = "query"
  /\ stack' = Push(t, Frame("get_address", "entry", ""))
  /\ UNCHANGED <<ivars, bvars, tvars, lvars, avars, lock_holder>>
  /\ ServerKept

\* the field read as a mutant would read it: the identifier, not the address
AddressRead_Guid == guid_hex

\* the field dbus_server_get_address copies: server->address (line 788)
AddressRead == address

\* _dbus_strdup: a copy of the string, or NULL when there is no memory
_dbus_strdup(str) == {str, NULL}

\* dbus_server_get_address (lines 780-792): SERVER_LOCK, the address is
\* copied, SERVER_UNLOCK
GetAddress(t) ==
  /\ At(t, "get_address", "entry")
  /\ lock_holder = {}
  /\ lock_holder' = SERVER_UNLOCK({t})
  /\ \E retval \in _dbus_strdup(AddressRead) :
       stack' = Goto(t, [Top(t) EXCEPT !.pc = "return", !.res = retval])
  /\ UNCHANGED <<ivars, bvars, tvars, lvars, avars>>
  /\ ServerKept

\* a call in progress of dbus_server_set_new_connection_function, with its
\* locals old_free_function and old_data
NewConnectionFrame(pc, old_free_function, old_data) ==
  [op |-> "set_new_connection_function", pc |-> pc, kind |-> "", w |-> NULL,
   res |-> "TRUE", old_free_function |-> old_free_function,
   old_data |-> old_data]

\* the application calls dbus_server_set_new_connection_function
CallSetNewConnectionFunction(t) ==
  /\ CanCall(t)
  /\ api = "callback"
  /\ stack' = Push(t, NewConnectionFrame("entry", 0, 0))
  /\ UNCHANGED <<ivars, bvars, tvars, lvars, avars, lock_holder>>
  /\ ServerKept

\* dbus_server_set_new_connection_function (lines 825-832): under the lock
\* the old destructor and data are remembered and the three fields replaced;
\* the application passes either its next (function, data) pair, with or
\* without a destructor, or NULLs
SetNewConnectionFunction(t) ==
  /\ At(t, "set_new_connection_function", "entry")
  /\ lock_holder = {}
  /\ lock_holder' = SERVER_UNLOCK({t})
  /\ \E install \in {i \in BOOLEAN : i => Len(installs) < MaxInstalls},
        with_free \in BOOLEAN :
       LET n == IF install THEN Len(installs) + 1 ELSE 0 IN
         /\ install \/ ~with_free
         /\ new_connection_function' = n
         /\ new_connection_data' = n
         /\ new_connection_free_data_function' = IF with_free THEN n ELSE 0
         /\ installs' = IF install THEN Append(installs, with_free)
                        ELSE installs
         /\ destroyed' = IF install THEN Append(destroyed, 0) ELSE destroyed
  /\ stack' = IF new_connection_free_data_function # 0
                THEN Goto(t, NewConnectionFrame(
                                "callout", new_connection_free_data_function,
                                new_connection_data))
                ELSE Pop(t)
  /\ UNCHANGED <<ivars, bvars, tvars, lvars, api, auth_mechanisms, dvars>>
  /\ ServerKept

\* lines 834-835: with the lock released, the old destructor, if there was
\* one, is called on the old data; the call returns
SetNewConnectionFree(t) ==
  /\ InLastCallout(t, "set_new_connection_function")
  /\ destroyed' = FreeCalled(Top(t).old_free_function, Top(t).old_data)
  /\ stack' = Pop(t)
  /\ UNCHANGED <<ivars, bvars, tvars, lvars, api, new_connection_function,
                 new_connection_data, new_connection_free_data_function,
                 installs, auth_mechanisms, lock_holder, dvars>>
  /\ ServerKept

\* the application calls dbus_server_set_auth_mechanisms
CallSetAuthMechanisms(t) ==
  /\ CanCall(t)
  /\ api = "auth"
  /\ stack' = Push(t, Frame("set_auth_mechanisms", "entry", ""))
  /\ UNCHANGED <<ivars, bvars, tvars, lvars, avars, lock_holder>>
  /\ ServerKept

\* the lists of mechanisms an application passes: NULL for all mechanisms
Mechanisms == {NULL, "EXTERNAL"}

\* _dbus_dup_string_array: a copy of the array, or NULL when there is no
\* memory
_dbus_dup_string_array(array) == {array, NULL}

\* dbus_server_set_auth_mechanisms (lines 963-979): SERVER_LOCK; the list
\* is copied and replaces the old one, SERVER_UNLOCK; when the copy fails
\* the function returns at line 969
SetAuthMechanisms(t) ==
  /\ At(t, "set_auth_mechanisms", "entry")
  /\ lock_holder = {}
  /\ \E mechanisms \in Mechanisms :
     \E copy \in _dbus_dup_string_array(mechanisms) :
       IF mechanisms # NULL /\ copy = NULL
         THEN /\ lock_holder' = {t}
              /\ auth_mechanisms' = auth_mechanisms
              /\ stack' = Goto(t, [Top(t) EXCEPT !.pc = "return",
                                                 !.res = "FALSE"])
         ELSE /\ lock_holder' = SERVER_UNLOCK({t})
              /\ auth_mechanisms' = copy
              /\ stack' = Goto(t, [Top(t) EXCEPT !.pc = "return",
                                                 !.res = "TRUE"])
  /\ UNCHANGED <<ivars, bvars, tvars, lvars, api, new_connection_function,
                 new_connection_data, new_connection_free_data_function,
                 installs, destroyed, dvars>>
  /\ ServerKept

\* `return retval' of dbus_server_get_is_connected, dbus_server_get_address
\* and dbus_server_set_auth_mechanisms
ApiReturn(t) ==
  /\ \E op \in {"get_is_connected", "get_address", "set_auth_mechanisms"} :
       At(t, op, "return")
  /\ stack' = Pop(t)
  /\ UNCHANGED <<ivars, bvars, tvars, lvars, avars, lock_holder>>
  /\ ServerKept

InitApi ==
  /\ TestIdle
  /\ asserts_enabled \in BOOLEAN
  /\ checks_enabled \in BOOLEAN
  /\ have_atomic_int \in BOOLEAN
  /\ InitListen
  /\ error_supplied = TRUE
  /\ ServerUninit
  /\ NoSlots
  /\ api \in ApiGroups \ {"registry", "slots"}

NextApi ==
  \/ InitBase
  \/ \E t \in Threads : CallRef(t)
  \/ \E t \in Threads : Ref(t)
  \/ \E t \in Threads : CallUnref(t)
  \/ \E t \in Threads : UnrefDec(t)
  \/ \E t \in Threads : UnrefFinalize(t)
  \/ \E t \in Threads : CallDisconnect(t)
  \/ \E t \in Threads : DisconnectLock(t)
  \/ \E t \in Threads : DisconnectTeardown(t)
  \/ \E t \in Threads : DisconnectUnlock(t)
  \/ \E t \in Threads : ProtectedChangeEntry(t)
  \/ \E t \in Threads : ProtectedChangeCallout(t)
  \/ \E t \in Threads : ProtectedChangeRelock(t)
  \/ \E t \in Threads : CallGetIsConnected(t)
  \/ \E t \in Threads : GetIsConnected(t)
  \/ \E t \in Threads : CallGetAddress(t)
  \/ \E t \in Threads : GetAddress(t)
  \/ \E t \in Threads : CallSetNewConnectionFunction(t)
  \/ \E t \in Threads : SetNewConnectionFunction(t)
  \/ \E t \in Threads : SetNewConnectionFree(t)
  \/ \E t \in Threads : CallSetAuthMechanisms(t)
  \/ \E t \in Threads : SetAuthMechanisms(t)
  \/ \E t \in Threads : ApiReturn(t)
  \/ \E t, u \in Threads : Give(t, u)

SpecApi == InitApi /\ [][NextApi]_vars

(***************************************************************************)
(* Data slots: the global slot allocator and the servers' slot lists       *)
(* (SpecSlots on servers that stay alive, SpecStore with the lifecycle)    *)
(***************************************************************************)
\* the most references one slot id ever has
MaxSlotRefs == 2

\* the ids of the allocator that are not in use: the reuse pool
FreeIds(allocator) ==
  {i \in 0..(Len(allocator) - 1) : allocator[i + 1] = 0}

\* the allocation as a mutant would do it: a fresh allocation hands out id 0
\* whether or not it is in use
_dbus_data_slot_allocator_alloc_first(allocator, slot) ==
  {[allocator |-> IF allocator = <<>> THEN <<1>>
                  ELSE [allocator EXCEPT ![1] = 1],
    slot |-> 0, ret |-> "TRUE"]}

\* _dbus_data_slot_allocator_alloc, under the global lock: a variable that
\* holds an id gets that id's count incremented; a variable that holds -1
\* gets an id from the reuse pool or, when the pool is empty, the next id of
\* the growing table, which needs memory.  The outcomes: the allocator and
\* the variable after the call, and the value returned
_dbus_data_slot_allocator_alloc(allocator, slot) ==
  IF slot >= 0
    THEN {[allocator |-> [allocator EXCEPT ![slot + 1] = @ + 1],
           slot |-> slot, ret |-> "TRUE"]}
  ELSE IF FreeIds(allocator) # {}
    THEN {[allocator |-> [allocator EXCEPT ![i + 1] = 1],
           slot |-> i, ret |-> "TRUE"] : i \in FreeIds(allocator)}
  ELSE {[allocator |-> Append(allocator, 1), slot |-> Len(allocator),
         ret |-> "TRUE"],
        [allocator |-> allocator, slot |-> slot, ret |-> "FALSE"]}

\* _dbus_data_slot_allocator_free, under the global lock: the id's count is
\* decremented; at zero the id goes back to the pool and the variable is
\* reset to -1
_dbus_data_slot_allocator_free(allocator, slot) ==
  LET after == [allocator EXCEPT ![slot + 1] = @ - 1] IN
    [allocator |-> after,
     slot |-> IF after[slot + 1] = 0 THEN -1 ELSE slot]

\* _dbus_data_slot_list_set: the pair is stored under the slot and the
\* previous pair handed back, or, for lack of memory, nothing is changed
_dbus_data_slot_list_set(list, slot, data, free_data_func) ==
  {[list |-> [list EXCEPT ![slot] =
                [data |-> data, free_data_func |-> free_data_func]],
    old_free_func |-> list[slot].free_data_func,
    old_data |-> list[slot].data, retval |-> "TRUE"],
   [list |-> list, old_free_func |-> 0, old_data |-> 0, retval |-> "FALSE"]}

\* _dbus_data_slot_list_get: the data stored under the slot, or NULL (0)
_dbus_data_slot_list_get(list, slot) == list[slot].data

\* a call in progress of dbus_server_set_data or dbus_server_get_data: its
\* server and slot, and the locals old_free_func and old_data
SlotFrame(op, pc, server, slot) ==
  [op |-> op, pc |-> pc, kind |-> "", w |-> NULL, res |-> "TRUE",
   server |-> server, slot |-> slot, old_free_func |-> 0, old_data |-> 0]

\* the references slot variable v's id has, 0 for an unallocated variable
SlotRefs(v) == IF slot_p[v] < 0 THEN 0 ELSE slot_allocator[slot_p[v] + 1]

\* what the data-slot functions that take no server lock leave unchanged
SlotsKept ==
  /\ UNCHANGED <<ivars, bvars, tvars, lvars, api, new_connection_function,
                 new_connection_data, new_connection_free_data_function,
                 installs, destroyed, auth_mechanisms, slot_list, last_set>>
  /\ UNCHANGED <<s_pc, init_address, refcount, disconnected, address, guid,
                 guid_hex, mutex, lock_holder, registry, finalize_count,
                 teardown_count, held, uaf>>

\* dbus_server_allocate_data_slot (&v) (lines 1000-1006), called by the
\* application; the global lock is taken and released within the call
AllocateDataSlot(t, v) ==
  /\ CanCall(t)
  /\ SlotRefs(v) < MaxSlotRefs
  /\ \E o \in _dbus_data_slot_allocator_alloc(slot_allocator, slot_p[v]) :
       /\ slot_allocator' = o.allocator
       /\ slot_p' = [slot_p EXCEPT ![v] = o.slot]
  /\ UNCHANGED <<stack, aborted>>
  /\ SlotsKept

\* the check as a mutant would make it: every value passes
SlotValid_Always(slot) == TRUE

\* `*slot_p >= 0' (line 1022)
SlotValid(slot) == slot >= 0

\* dbus_server_free_data_slot (&v) (lines 1019-1025), called by the
\* application.  Without the check of line 1022 a variable holding -1 makes
\* _dbus_data_slot_allocator_free index the table at -1: the process ends
\* there, or the call returns
FreeDataSlot(t, v) ==
  /\ CanCall(t)
  /\ LET slot == slot_p[v] IN
       IF checks_enabled /\ ~SlotValid(slot)
         THEN UNCHANGED <<slot_allocator, slot_p, aborted>>
       ELSE IF slot < 0
         THEN /\ UNCHANGED <<slot_allocator, slot_p>>
              /\ aborted' \in {1024, aborted}
       ELSE LET o == _dbus_data_slot_allocator_free(slot_allocator, slot) IN
              /\ slot_allocator' = o.allocator
              /\ slot_p' = [slot_p EXCEPT ![v] = o.slot]
              /\ aborted' = aborted
  /\ stack' = stack
  /\ SlotsKept

\* the slot ids the application may pass to dbus_server_set_data and
\* dbus_server_get_data: those its slot variables hold
AllocatedSlots == {slot_p[v] : v \in SlotVars} \ {-1}

\* the application calls dbus_server_set_data or dbus_server_get_data
CallSlotData(t, op) ==
  /\ CanCall(t)
  /\ AllocatedSlots # {}
  /\ stack' = Push(t, SlotFrame(op, "entry", 0, -1))
  /\ UNCHANGED <<ivars, bvars, tvars, lvars, avars, lock_holder>>
  /\ ServerKept

\* SERVER_LOCK (server) can be taken: server 2's mutex is only ever held
\* within a step
ServerLockFree(server) == server # 1 \/ lock_holder = {}

\* the list the call reads as a mutant would pick it: the other server's
GetDataList_Other(server) == slot_list[3 - server]

\* `&server->slot_list' (line 1091)
GetDataList(server) == slot_list[server]

\* dbus_server_set_data (lines 1052-1060) on one of the servers, with the id
\* of an allocated slot: SERVER_LOCK, the pair is stored, SERVER_UNLOCK; the
\* application passes either its next data, with or without a destructor,
\* or NULLs
SetData(t, server) ==
  /\ At(t, "set_data", "entry")
  /\ ServerLockFree(server)
  /\ \E slot \in AllocatedSlots :
     LET f == [Top(t) EXCEPT !.server = server, !.slot = slot] IN
     \E install \in {i \in BOOLEAN : i => Len(installs) < MaxInstalls},
        with_free \in BOOLEAN :
       LET n == IF install THEN Len(installs) + 1 ELSE 0 IN
         /\ install \/ ~with_free
         /\ \E o \in _dbus_data_slot_list_set(
                       slot_list[f.server], f.slot, n,
                       IF with_free THEN n ELSE 0) :
              /\ slot_list' = [slot_list EXCEPT ![f.server] = o.list]
              /\ lock_holder' = IF f.server = 1 THEN SERVER_UNLOCK({t})
                                ELSE lock_holder
              /\ IF o.retval = "TRUE"
                   THEN /\ installs' = IF install
                                         THEN Append(installs, with_free)
                                         ELSE installs
                        /\ destroyed' = IF install THEN Append(destroyed, 0)
                                        ELSE destroyed
                        /\ last_set' =
                             [last_set EXCEPT ![f.server][f.slot] = n]
                   ELSE UNCHANGED <<installs, destroyed, last_set>>
              /\ stack' =
                   IF o.retval = "TRUE" /\ o.old_free_func # 0
                     THEN Goto(t, [f EXCEPT
                                     !.pc = "callout",
                                     !.old_free_func = o.old_free_func,
                                     !.old_data = o.old_data])
                     ELSE Pop(t)
  /\ UNCHANGED <<ivars, bvars, tvars, lvars, api, new_connection_function,
                 new_connection_data, new_connection_free_data_function,
                 auth_mechanisms, slot_allocator, slot_p>>
  /\ ServerKept

\* lines 1062-1067: with the lock released, the previous destructor, if
\* there was one, is called on the previous data
SetDataFree(t) ==
  /\ InLastCallout(t, "set_data")
  /\ destroyed' = FreeCalled(Top(t).old_free_func, Top(t).old_data)
  /\ stack' = Pop(t)
  /\ UNCHANGED <<ivars, bvars, tvars, lvars, api, new_connection_function,
                 new_connection_data, new_connection_free_data_function,
                 installs, auth_mechanisms, lock_holder, dvars>>
  /\ ServerKept

\* dbus_server_get_data (lines 1088-1096) on one of the servers, with the id
\* of an allocated slot: SERVER_LOCK, the slot is read, SERVER_UNLOCK
GetData(t, server) ==
  /\ At(t, "get_data", "entry")
  /\ ServerLockFree(server)
  /\ lock_holder' = IF server = 1 THEN SERVER_UNLOCK({t}) ELSE lock_holder
  /\ \E slot \in AllocatedSlots :
       stack' =
         Goto(t, [Top(t) EXCEPT
                    !.pc = "return", !.server = server, !.slot = slot,
                    !.res = _dbus_data_slot_list_get(GetDataList(server),
                                                     slot)])
  /\ UNCHANGED <<ivars, bvars, tvars, lvars, avars>>
  /\ ServerKept

\* `return res' of dbus_server_get_data (line 1096)
SlotReturn(t) ==
  /\ At(t, "get_data", "return")
  /\ stack' = Pop(t)
  /\ UNCHANGED <<ivars, bvars, tvars, lvars, avars, lock_holder>>
  /\ ServerKept

\* SpecSlots starts with both servers alive after a successful listen, each
\* thread owning one reference to server 1; the data-slot functions do not
\* look at assertions or at the way the count is kept
InitSlots ==
  /\ TestIdle
  /\ asserts_enabled = TRUE
  /\ checks_enabled \in BOOLEAN
  /\ have_atomic_int = TRUE
  /\ InitListen
  /\ error_supplied = TRUE
  /\ s_pc = "live"
  /\ init_ret = [value |-> "TRUE", step |-> "none",
                 acquired |-> InitAcquired(InitFields(Addresses[1], Guids[1],
                                                      "none")),
                 freed |-> {}]
  /\ init_address = Addresses[1]
  /\ refcount = 2
  /\ disconnected = FALSE
  /\ guid = Guids[1]
  /\ guid_hex = _dbus_uuid_encode(Guids[1])
  /\ address = copy_address_with_guid_appended(Addresses[1],
                                               _dbus_uuid_encode(Guids[1]))
  /\ mutex = "mutex"
  /\ lock_holder = {}
  /\ registry = [watch |-> "watches", timeout |-> "timeouts"]
  /\ finalize_count = 0
  /\ teardown_count = 0
  /\ stack = [t \in Threads |-> <<>>]
  /\ held = [t \in Threads |-> 1]
  /\ aborted = 0
  /\ uaf = FALSE
  /\ new_connection_function = 0
  /\ new_connection_data = 0
  /\ new_connection_free_data_function = 0
  /\ installs = <<>>
  /\ destroyed = <<>>
  /\ auth_mechanisms = NULL
  /\ slot_list = [s \in Servers |-> EmptySlotList]
  /\ last_set = [s \in Servers |-> [i \in SlotIds |-> 0]]
  /\ NoSlots
  /\ api = "slots"

NextSlots ==
  \/ \E t \in Threads, v \in SlotVars : AllocateDataSlot(t, v)
  \/ \E t \in Threads, v \in SlotVars : FreeDataSlot(t, v)
  \/ \E t \in Threads : CallSlotData(t, "set_data")
  \/ \E t \in Threads, server \in Servers : SetData(t, server)
  \/ \E t \in Threads : SetDataFree(t)
  \/ \E t \in Threads : CallSlotData(t, "get_data")
  \/ \E t \in Threads, server \in Servers : GetData(t, server)
  \/ \E t \in Threads : SlotReturn(t)

SpecSlots == InitSlots /\ [][NextSlots]_vars

\* SpecStore starts before _dbus_server_init_base, with slot variable a
\* allocated: the data the server carries, in its slot list and with its
\* new-connection function, is followed through the server's release and
\* finalization, with and without assertions
InitStore ==
  /\ TestIdle
  /\ asserts_enabled \in BOOLEAN
  /\ checks_enabled = TRUE
  /\ have_atomic_int = TRUE
  /\ InitListen
  /\ error_supplied = TRUE
  /\ ServerUninit
  /\ \E o \in _dbus_data_slot_allocator_alloc(<<>>, -1) :
       /\ o.ret = "TRUE"
       /\ slot_allocator = o.allocator
       /\ slot_p = [v \in SlotVars |-> IF v = "a" THEN o.slot ELSE -1]
  /\ api = "callback"

NextStore ==
  \/ InitBase
  \/ \E t \in Threads : CallRef(t)
  \/ \E t \in Threads : Ref(t)
  \/ \E t \in Threads : CallUnref(t)
  \/ \E t \in Threads : UnrefDec(t)
  \/ \E t \in Threads : UnrefFinalize(t)
  \/ \E t \in Threads : CallDisconnect(t)
  \/ \E t \in Threads : DisconnectLock(t)
  \/ \E t \in Threads : DisconnectTeardown(t)
  \/ \E t \in Threads : DisconnectUnlock(t)
  \/ \E t \in Threads : ProtectedChangeEntry(t)
  \/ \E t \in Threads : ProtectedChangeCallout(t)
  \/ \E t \in Threads : ProtectedChangeRelock(t)
  \/ \E t \in Threads : CallSetNewConnectionFunction(t)
  \/ \E t \in Threads : SetNewConnectionFunction(t)
  \/ \E t \in Threads : SetNewConnectionFree(t)
  \/ \E t \in Threads : CallSlotData(t, "set_data")
  \/ \E t \in Threads : SetData(t, 1)
  \/ \E t \in Threads : SetDataFree(t)
  \/ \E t, u \in Threads : Give(t, u)

SpecStore == InitStore /\ [][NextStore]_vars

(***************************************************************************)
(* SpecTest: _dbus_server_test (lines 1104-1150), which for each of its    *)
(* addresses twice listens, disconnects and releases the server            *)
(***************************************************************************)
\* the calls of dbus_server_listen the test makes: two for each address
TestListens == 2 * Len(valid_addresses)

\* valid_addresses[i] at the n-th call of dbus_server_listen
TestAddress(n) == valid_addresses[((n - 1) \div 2) + 1]

\* the test runs in thread 1 of a process that has no server yet
InitTest ==
  /\ asserts_enabled \in BOOLEAN
  /\ checks_enabled \in BOOLEAN
  /\ have_atomic_int \in BOOLEAN
  /\ InitListen
  /\ error_supplied = TRUE
  /\ ServerUninit
  /\ NoSlots
  /\ api = "registry"
  /\ bound = {}
  /\ t_pc = "listen"
  /\ t_n = 0

\* `server = dbus_server_listen (valid_addresses[i], &error)' and the check
\* of the result (lines 1125-1131, 1137-1143), when no allocation fails: the
\* transport binds the endpoint and the new server object is initialised as
\* by _dbus_server_init_base, or the endpoint is in use, the server is NULL
\* and the test fails
TestListen ==
  /\ Alive
  /\ t_pc = "listen"
  /\ stack[1] = <<>>
  /\ UNCHANGED <<ivars, bvars, lvars, avars>>
  /\ t_n' = t_n + 1
  /\ LET addr == TestAddress(t_n + 1)
         o == TransportListen(bound, addr)
     IN
       /\ bound' = o.bound
       /\ IF o.result = DBUS_SERVER_LISTEN_OK
            THEN /\ t_pc' = "disconnect"
                 /\ \E n \in 1..Len(Guids) :
                      /\ guid' = Guids[n]
                      /\ guid_hex' = _dbus_uuid_encode(Guids[n])
                      /\ address' =
                           copy_address_with_guid_appended(
                             addr, _dbus_uuid_encode(Guids[n]))
                 /\ s_pc' = "live"
                 /\ init_address' = addr
                 /\ refcount' = 1
                 /\ disconnected' = FALSE
                 /\ mutex' = "mutex"
                 /\ lock_holder' = {}
                 /\ registry' = [watch |-> "watches", timeout |-> "timeouts"]
                 /\ finalize_count' = 0
                 /\ teardown_count' = 0
                 /\ held' = [held EXCEPT ![1] = 1]
                 /\ UNCHANGED <<stack, aborted, uaf>>
            ELSE /\ t_pc' = "failed"
                 /\ aborted' = IF ~asserts_enabled THEN aborted
                               ELSE IF t_n % 2 = 0 THEN 1130 ELSE 1142
                 /\ UNCHANGED <<s_pc, init_address, refcount, disconnected,
                                address, guid, guid_hex, mutex, lock_holder,
                                registry, finalize_count, teardown_count,
                                stack, held, uaf>>

\* `dbus_server_disconnect (server)' (lines 1133, 1145)
TestDisconnect ==
  /\ Alive
  /\ t_pc = "disconnect"
  /\ stack[1] = <<>>
  /\ t_pc' = "unref"
  /\ stack' = Push(1, Frame("disconnect", "entry", ""))
  /\ UNCHANGED <<ivars, bvars, lvars, avars, bound, t_n>>
  /\ UNCHANGED <<s_pc, init_address, refcount, disconnected, address, guid,
                 guid_hex, mutex, lock_holder, registry, finalize_count,
                 teardown_count, held, aborted, uaf>>

\* `dbus_server_unref (server)' (lines 1134, 1146), after which the test
\* goes on to its next listen or, after the last address, to its return
TestUnref ==
  /\ Alive
  /\ t_pc = "unref"
  /\ stack[1] = <<>>
  /\ t_pc' = IF t_n < TestListens THEN "listen" ELSE "return"
  /\ held' = [held EXCEPT ![1] = @ - 1]
  /\ stack' = Push(1, Frame("unref", "entry", ""))
  /\ UNCHANGED <<ivars, bvars, lvars, avars, bound, t_n>>
  /\ UNCHANGED <<s_pc, init_address, refcount, disconnected, address, guid,
                 guid_hex, mutex, lock_holder, registry, finalize_count,
                 teardown_count, aborted, uaf>>

\* `return TRUE' (line 1149)
TestReturn ==
  /\ Alive
  /\ t_pc = "return"
  /\ stack[1] = <<>>
  /\ t_pc' = "done"
  /\ UNCHANGED <<ivars, bvars, lvars, svars, avars, bound, t_n>>

NextTest ==
  \/ TestListen
  \/ TestDisconnect
  \/ TestUnref
  \/ TestReturn
  \/ \E t \in Threads : DisconnectLock(t)
  \/ \E t \in Threads : DisconnectTeardown(t)
  \/ \E t \in Threads : DisconnectUnlock(t)
  \/ \E t \in Threads : ProtectedChangeEntry(t)
  \/ \E t \in Threads : ProtectedChangeCallout(t)
  \/ \E t \in Threads : ProtectedChangeRelock(t)
  \/ \E t \in Threads : UnrefDec(t)
  \/ \E t \in Threads : UnrefFinalize(t)

\* the test is a sequential program: it runs as long as it has a next step
SpecTest == InitTest /\ [][NextTest]_vars /\ WF_vars(NextTest)

(***************************************************************************)
(* Claims about the server object (checked under Spec)                     *)
(***************************************************************************)
\* C7: after a successful _dbus_server_init_base, and in every later state
\* until finalization, the server's address is the address passed to the
\* initialisation followed by ",guid=" and the hex encoding (32 lowercase hex
\* digits) of the server's own identifier.
C7_AddressCarriesGuid ==
  s_pc = "live" =>
    /\ address = init_address \o ",guid=" \o _dbus_uuid_encode(guid)
    /\ guid_hex = _dbus_uuid_encode(guid)
    /\ Len(guid_hex) = 2 * DBUS_UUID_LENGTH_BYTES
    /\ Len(address) = Len(init_address) + 6 + 2 * DBUS_UUID_LENGTH_BYTES

\* a server that has been disconnected, with a registry detached by a
\* call-out in progress, still carries the address it was given
C7_Witness ==
  /\ s_pc = "live" /\ disconnected
  /\ registry["watch"] = NULL
  /\ address = "unix:path=./boogie,guid=fffefdfcfbfaf9f8f7f6f5f4f3f2f1f0"

\* C8: from initialisation until finalization, whenever some thread holds a
\* reference the server has not been finalized and its reference count is at
\* least 1 (indeed at least the number of references held).
C8_RefcountPositiveWhileHeld ==
  (s_pc \in {"live", "finalized"} /\ \E t \in Threads : held[t] > 0) =>
    /\ s_pc = "live"
    /\ refcount >= 1
    /\ refcount >= SumHeld(Threads)

\* both threads hold a reference while one of them is inside a watch
\* call-out made from the teardown of a disconnect
C8_Witness ==
  /\ s_pc = "live"
  /\ \A t \in Threads : held[t] > 0
  /\ \E t \in Threads :
       /\ Len(stack[t]) = 2
       /\ stack[t][1].op = "disconnect"
       /\ stack[t][2].pc = "callout"

\* C9: the disconnected flag only ever changes from false to true: once
\* true it is true in every later state.
C9_DisconnectedMonotonic == [][disconnected => disconnected']_vars

\* a second disconnect has run past the flag while the first one is still
\* inside its teardown
C9_Witness ==
  /\ s_pc = "live" /\ disconnected
  /\ \E t, u \in Threads :
       /\ t # u
       /\ At(t, "disconnect", "unlock")
       /\ Len(stack[u]) = 2
       /\ stack[u][1].op = "disconnect"
       /\ stack[u][2].pc = "relock"

Frames == UNION {{<<t, k>> : k \in 1..Len(stack[t])} : t \in Threads}

\* the calls in progress of function op that stand at one of the places pcs
FramesAt(op, pcs) ==
  {f \in Frames : stack[f[1]][f[2]].op = op /\ stack[f[1]][f[2]].pc \in pcs}

\* C11: under every interleaving of ref and unref by several threads the
\* finalizer is invoked at most once, only by the release that took the
\* reference count from 1 to 0 (so with the count at 0), and that release is
\* the only one that stands before the finalizer call.
C11_FinalizeExactlyOnce ==
  /\ finalize_count <= 1
  /\ (s_pc = "finalized") <=> (finalize_count = 1)
  /\ s_pc = "finalized" => refcount = 0
  /\ (s_pc = "live" /\ FramesAt("unref", {"last"}) # {}) => refcount = 0
  /\ Cardinality(FramesAt("unref", {"last"})) <= 1
  /\ (s_pc = "live" /\ refcount = 0 /\ Alive) =>
        Cardinality(FramesAt("unref", {"last"})) = 1

\* thread 2, which got its reference from thread 1, has made the release
\* that took the count to 0 and stands before the finalizer call
C11_Witness ==
  /\ At(2, "unref", "last")
  /\ refcount = 0 /\ disconnected
  /\ stack[1] = <<>> /\ held = <<0, 0>>
  /\ finalize_count = 0

\* C12: over any sequence of disconnect calls (sequential, concurrent, or
\* recursive from inside the teardown's call-out) the transport's disconnect
\* routine is invoked at most once, by the call that set the flag; a call
\* that finds the flag set never stands before the teardown.
C12_DisconnectIdempotent ==
  /\ teardown_count <= 1
  /\ teardown_count = 1 => disconnected
  /\ Cardinality(FramesAt("disconnect", {"teardown"})) <= 1
  /\ FramesAt("disconnect", {"teardown"}) # {} =>
       disconnected /\ teardown_count = 0
  /\ (s_pc = "live" /\ Alive /\ disconnected /\ teardown_count = 0) =>
       FramesAt("disconnect", {"teardown"}) # {}

\* a disconnect made from the call-out of the teardown's watch removal has
\* passed the flag without a second teardown
C12_Witness ==
  /\ teardown_count = 1 /\ s_pc = "live" /\ Alive
  /\ \E t \in Threads :
       /\ Len(stack[t]) = 3
       /\ stack[t][1].op = "disconnect"
       /\ stack[t][2].op = "protected_change" /\ stack[t][2].pc = "callout"
       /\ stack[t][3].op = "disconnect" /\ stack[t][3].pc = "unlock"

\* the references owned by calls in progress: the one dbus_server_disconnect
\* takes at line 738, the one protected_change_* takes around its call-out,
\* and the one a release has been handed and has not subtracted yet
TempRefs ==
  Cardinality(FramesAt("disconnect", {"teardown", "unlock"}))
  + Cardinality(FramesAt("protected_change", {"callout", "relock"}))
  + Cardinality(FramesAt("unref", {"entry"}))

\* C13: dbus_server_disconnect changes the reference count by nothing in
\* total (the count is always the references held plus those owned by calls
\* in progress, one per disconnect between its lock and its final release),
\* and the server is not finalized while a disconnect stands between its
\* lock acquisition and its lock release, whatever other threads do.
C13_DisconnectKeepsRefcount ==
  /\ (s_pc = "live" /\ Alive) => refcount = SumHeld(Threads) + TempRefs
  /\ FramesAt("disconnect", {"teardown", "unlock"}) # {} =>
       s_pc = "live" /\ refcount >= 1

\* a disconnect holds the lock, after its teardown, while the other thread
\* is releasing the only other reference
C13_Witness ==
  /\ s_pc = "live" /\ Alive /\ teardown_count = 1
  /\ \E t, u \in Threads :
       /\ t # u
       /\ At(t, "disconnect", "unlock") /\ Len(stack[t]) = 1
       /\ lock_holder = {t}
       /\ At(u, "unref", "entry")
       /\ held[t] = 1 /\ held[u] = 0
       /\ refcount = 3

\* thread t's stack with its top frame popped and `res' handed to the caller
Returned_To_Caller(t, res) ==
  Append(SubSeq(stack[t], 1, Len(stack[t]) - 2),
         [stack[t][Len(stack[t]) - 1] EXCEPT !.res = res])

\* C18: a watch or timeout add, remove or toggle that finds its registry
\* detached is never blocked (it stands there with the lock held) and its
\* step returns FALSE to its caller at once: no call-out, the lock still
\* held by the caller, the reference count and the registry field unchanged.
C18_DetachedFailsFast ==
  /\ [](\A t \in Threads :
          At(t, "protected_change", "entry") => lock_holder = {t})
  /\ [][\A t \in Threads :
          (/\ At(t, "protected_change", "entry")
           /\ registry[Top(t).kind] = NULL
           /\ stack'[t] # stack[t])
          => /\ lock_holder' = {t}
             /\ refcount' = refcount
             /\ registry' = registry
             /\ stack'[t] = Returned_To_Caller(t, "FALSE")
             /\ aborted' = aborted /\ s_pc' = s_pc]_vars

\* a transport's watch operation has come back FALSE, with the lock held,
\* while the other thread is in a call-out with the watch registry detached
C18_Witness ==
  /\ s_pc = "live" /\ Alive
  /\ \E t, u \in Threads :
       /\ t # u
       /\ At(t, "backend", "unlock")
       /\ Top(t).kind = "watch" /\ Top(t).res = "FALSE"
       /\ lock_holder = {t}
       /\ registry["watch"] = NULL
       /\ At(u, "protected_change", "callout") /\ Top(u).kind = "watch"

\* the registry a server was initialised with
RegistryOf(kind) == IF kind = "watch" THEN "watches" ELSE "timeouts"

\* the calls in progress that have registry `kind' detached
Detachers(kind) ==
  {f \in Frames :
     /\ stack[f[1]][f[2]].op \in {"protected_change", "set_functions"}
     /\ stack[f[1]][f[2]].pc \in {"callout", "relock"}
     /\ stack[f[1]][f[2]].kind = kind}

\* C19: dbus_server_set_watch_functions / dbus_server_set_timeout_functions
\* called while the registry is detached returns FALSE without a call-out
\* and leaves the field as it is; the registry is never lost or overwritten:
\* it is either in the field, or in the hands of exactly one call in progress
\* that will put it back.
C19_ReentrantSetFunctionsFails ==
  /\ [][\A t \in Threads :
          (/\ At(t, "set_functions", "entry")
           /\ registry[Top(t).kind] = NULL
           /\ stack'[t] # stack[t])
          => /\ registry' = registry
             /\ lock_holder' = lock_holder
             /\ refcount' = refcount
             /\ stack'[t] =
                  Append(SubSeq(stack[t], 1, Len(stack[t]) - 1),
                         [Top(t) EXCEPT !.pc = "return", !.res = "FALSE"])]_vars
  /\ [](s_pc = "live" /\ Alive =>
          \A kind \in RegistryKinds :
            \/ /\ registry[kind] = RegistryOf(kind)
               /\ Detachers(kind) = {}
            \/ /\ registry[kind] = NULL
               /\ Cardinality(Detachers(kind)) = 1
               /\ \A f \in Detachers(kind) :
                    stack[f[1]][f[2]].w = RegistryOf(kind))

\* a set-functions call made from inside a watch call-out has returned FALSE
\* and the outer call, still in its call-out, keeps the registry
C19_Witness ==
  /\ s_pc = "live" /\ Alive
  /\ \E t \in Threads :
       /\ Len(stack[t]) >= 2
       /\ At(t, "set_functions", "return")
       /\ Top(t).res = "FALSE" /\ Top(t).w = NULL
       /\ stack[t][Len(stack[t]) - 1].pc = "callout"
       /\ stack[t][Len(stack[t]) - 1].kind = Top(t).kind
       /\ stack[t][Len(stack[t]) - 1].w = RegistryOf(Top(t).kind)
       /\ registry[Top(t).kind] = NULL

\* the step of thread t that detaches the registry: from the entry of
\* protected_change_* to its call-out
DetachStep(t) ==
  /\ At(t, "protected_change", "entry")
  /\ stack'[t] # <<>>
  /\ Len(stack'[t]) = Len(stack[t])
  /\ Top(t)'.op = "protected_change" /\ Top(t)'.pc = "callout"

\* the step of thread t that ends the call-out of protected_change_*: it
\* takes the lock again and drops the reference
ReattachStep(t) ==
  /\ At(t, "protected_change", "relock")
  /\ stack'[t] # stack[t]
  /\ aborted' = aborted

\* what the detaching step does: the lock was held, the field is absent, the
\* count one higher, the lock released, the registry kept in the local
DetachedInOrder(t) ==
  /\ lock_holder = {t}
  /\ registry[Top(t).kind] # NULL
  /\ registry' = [registry EXCEPT ![Top(t).kind] = NULL]
  /\ refcount' = refcount + 1
  /\ lock_holder' = {}
  /\ Top(t)'.w = registry[Top(t).kind]

\* what the reattaching step does when the server stays: the lock was free
\* and is now the caller's, the same registry is back in the field, the count
\* one lower, the result handed to the caller
ReattachedInOrder(t) ==
  /\ lock_holder = {}
  /\ lock_holder' = {t}
  /\ registry' = [registry EXCEPT ![Top(t).kind] = Top(t).w]
  /\ refcount' = refcount - 1
  /\ s_pc' = "live"
  /\ stack'[t] = Returned_To_Caller(t, Top(t).res)

\* during the call-out the thread does not hold the lock and the field stays
\* absent
DetachedDuringCallout ==
  \A t \in Threads :
    (At(t, "protected_change", "callout") \/ At(t, "protected_change", "relock"))
    => /\ t \notin lock_holder
       /\ registry[Top(t).kind] = NULL
       /\ Top(t).w = RegistryOf(Top(t).kind)

\* C29 as stated: every watch or timeout operation that found its registry
\* detaches it and takes a reference under the lock, releases the lock,
\* calls out, takes the lock again, puts the same registry back and drops
\* the reference, and on return the caller holds the lock with the field as
\* it was at entry.
C29_DetachProtocolAlwaysReturnsLocked ==
  /\ []DetachedDuringCallout
  /\ [][\A t \in Threads :
          /\ DetachStep(t) => DetachedInOrder(t)
          /\ ReattachStep(t) => ReattachedInOrder(t)]_vars

\* C29, amended: the protocol is followed in that order, and on return the
\* caller holds the lock with the field as it was at entry and the count
\* lowered by the one the operation had added, unless the reference the
\* operation drops is the last one (the application released its own during
\* the call-out): then the lock is released and the server finalized.
C29_DetachProtocol ==
  /\ []DetachedDuringCallout
  /\ [][\A t \in Threads :
          /\ DetachStep(t) => DetachedInOrder(t)
          /\ ReattachStep(t) =>
               IF refcount > 1
                 THEN ReattachedInOrder(t)
                 ELSE /\ refcount' = 0
                      /\ lock_holder = {} /\ lock_holder' = {}
                      /\ s_pc' = "finalized"
                      /\ registry' = [k \in RegistryKinds |-> NULL]]_vars

\* a transport's timeout operation has come back TRUE with the lock held and
\* the registry back in its field, after the other thread took a reference
\* during the call-out
C29_Witness ==
  /\ s_pc = "live" /\ Alive
  /\ \E t, u \in Threads :
       /\ t # u
       /\ At(t, "backend", "unlock") /\ Len(stack[t]) = 1
       /\ Top(t).kind = "timeout" /\ Top(t).res = "TRUE"
       /\ lock_holder = {t}
       /\ registry["timeout"] = "timeouts"
       /\ held[t] = 1 /\ held[u] = 1 /\ refcount = 2
       /\ stack[u] = <<>>

\* the calls in progress that have released the lock for a call-out and will
\* touch the server again after it
InCallout ==
  FramesAt("protected_change", {"callout", "relock"})
  \cup FramesAt("set_functions", {"callout", "relock"})

\* C30: every operation that releases the lock to call out and touches the
\* server afterwards (watch/timeout add, remove, toggle; installing watch or
\* timeout functions) owns a reference of its own for the whole call-out, so
\* the server is never finalized while such a call is in its call-out or
\* about to take the lock again.
C30_ExtraRefAcrossCallout ==
  /\ InCallout # {} => s_pc # "finalized"
  /\ (s_pc = "live" /\ Alive) =>
       refcount = SumHeld(Threads) + TempRefs
                  + Cardinality(FramesAt("set_functions", {"callout", "relock"}))

\* thread u has the registry of that kind detached: it is between the
\* detaching and the reattaching of a watch or timeout operation
DetachedBy(u, kind) ==
  \E k \in 1..Len(stack[u]) :
    /\ stack[u][k].op \in {"protected_change", "set_functions"}
    /\ stack[u][k].kind = kind
    /\ stack[u][k].pc \in {"callout", "relock"}
    /\ stack[u][k].w # NULL

\* thread t's step is the read, under the lock, of a registry field that is
\* absent: `if (watches)' / `if (timeouts)' (lines 227, 343, 870, 923)
ObservesAbsent(t) ==
  /\ \/ At(t, "protected_change", "entry") /\ lock_holder = {t}
     \/ At(t, "set_functions", "entry")
  /\ registry[Top(t).kind] = NULL
  /\ stack'[t] # stack[t]

\* C31: while a thread has a registry detached for a call-out, no other
\* thread reads the registry field as absent under the server lock.
C31_DetachedInvisibleToOthers ==
  [][\A t \in Threads :
       ObservesAbsent(t) =>
         \A u \in Threads \ {t} : ~DetachedBy(u, Top(t).kind)]_vars

\* the watch and timeout operations and the set-functions calls in progress
RegistryCalls ==
  {f \in Frames :
     stack[f[1]][f[2]].op \in {"protected_change", "set_functions"}}

\* C37: on a live server with no watch or timeout add/remove/toggle and no
\* set-functions call in progress, both registry fields hold the registries
\* the server was initialised with.
C37_RegistriesAttachedAtRest ==
  (s_pc = "live" /\ RegistryCalls = {}) =>
    \A kind \in RegistryKinds : registry[kind] = RegistryOf(kind)

\* a transport's watch operation has returned to it after its call-out,
\* the other thread has finished a disconnect, and no registry call is left
C37_Witness ==
  /\ s_pc = "live" /\ Alive
  /\ RegistryCalls = {}
  /\ teardown_count = 1
  /\ registry = [kind \in RegistryKinds |-> RegistryOf(kind)]
  /\ \E t \in Threads :
       /\ At(t, "backend", "unlock") /\ Top(t).kind = "watch"
       /\ Top(t).res = "FALSE"
       /\ lock_holder = {t}
       /\ stack[3 - t] = <<>>

\* thread t's step is the end of a watch or timeout operation: SERVER_LOCK,
\* the reattaching and _dbus_server_unref_unlocked (lines 246-250, 362-366)
RelockStep(t) ==
  /\ At(t, "protected_change", "relock")
  /\ stack'[t] # stack[t]

\* the operation of thread t was called by the transport's teardown inside
\* dbus_server_disconnect, which owns a reference (line 738)
FromTeardown(t) ==
  /\ Len(stack[t]) >= 2
  /\ stack[t][Len(stack[t]) - 1].op = "disconnect"
  /\ stack[t][Len(stack[t]) - 1].pc = "unlock"

\* C38 as stated: the reference dropped at the end of a watch or timeout
\* operation is never the last one: the drop does not finalize the server,
\* no assertion of _dbus_server_unref_unlocked fails, and the operation
\* returns to a caller that holds the lock of a live server.
C38_DropNeverLast ==
  /\ [][\A t \in Threads :
          RelockStep(t) =>
            /\ refcount >= 2
            /\ s_pc' = "live"
            /\ lock_holder' = {t}]_vars
  /\ [](aborted \notin {698, 713})

\* C38, amended: the drop is not the last one when a thread still holds a
\* reference or the operation was called from the teardown inside
\* dbus_server_disconnect; then the operation returns to a caller that holds
\* the lock of a live server with the registry back in its field.  When the
\* drop finds the count at 1 it is the last one, and the server is finalized
\* with the lock released.
C38_DropLastOnlyWithoutOwner ==
  [][\A t \in Threads :
       RelockStep(t) =>
         /\ refcount >= 1
         /\ (SumHeld(Threads) > 0 \/ FromTeardown(t)) =>
              /\ refcount >= 2
              /\ refcount' = refcount - 1
              /\ s_pc' = "live"
              /\ lock_holder' = {t}
              /\ registry'[Top(t).kind] = RegistryOf(Top(t).kind)
         /\ refcount = 1 =>
              /\ s_pc' = "finalized"
              /\ lock_holder' = {}]_vars

\* in a build whose unref needs the lock, a disconnect is back from the
\* watch removal of its teardown and holds the only reference left: the
\* application's references were released during the call-out
C38_Witness ==
  /\ ~have_atomic_int
  /\ s_pc = "live" /\ Alive
  /\ At(1, "disconnect", "unlock") /\ Len(stack[1]) = 1
  /\ lock_holder = {1}
  /\ teardown_count = 1
  /\ held = <<0, 0>>
  /\ refcount = 1
  /\ stack[2] = <<>>

\* thread t's step belongs to a call that violates the contract: the release
\* of the last reference of a server that is not disconnected, or a ref or
\* unref of a server whose count is not positive
ContractViolation(t) ==
  /\ stack'[t] # stack[t]
  /\ \/ At(t, "unref", "entry") /\ refcount = 1 /\ ~disconnected
     \/ At(t, "unref", "last") /\ ~disconnected
     \/ At(t, "unref", "entry") /\ refcount <= 0
     \/ At(t, "ref", "entry") /\ refcount <= 0

\* C36: in a build that enforces neither assertions nor argument checks, a
\* call that violates the contract leaves the reference count, the
\* disconnected flag, the registries and the finalized status as they were.
C36_ViolationLeavesStateAlone ==
  [][(~asserts_enabled /\ ~checks_enabled) =>
       \A t \in Threads :
         ContractViolation(t) =>
           UNCHANGED <<refcount, disconnected, registry, s_pc>>]_vars

\* the sub-resources of the steps that come before `step' in the code
AcquiredBefore(step) ==
  {InitSteps[k] : k \in 1..(InitStepIndex(step) - 1)} \ {"encode"}

\* C35: _dbus_server_init_base is all-or-nothing.  When a step fails (the
\* guid_hex string, the encoding, the address copy, the mutex, the watch
\* list, the timeout list) it returns FALSE with every sub-resource acquired
\* by the earlier steps released, nothing else released, and the address,
\* mutex, watch-list and timeout-list fields absent; when it returns TRUE the
\* reference count is 1, the server is not disconnected, and the address, the
\* mutex and both lists are present.
C35_InitAllOrNothing ==
  /\ [](init_ret.value = "FALSE" =>
          /\ s_pc = "init_failed"
          /\ init_ret.step \in InitFailures
          /\ init_ret.acquired = AcquiredBefore(init_ret.step)
          /\ init_ret.freed = init_ret.acquired
          /\ address = NULL /\ mutex = NULL
          /\ registry["watch"] = NULL /\ registry["timeout"] = NULL)
  /\ [][(init_ret' # init_ret) =>
          /\ s_pc = "uninit" /\ init_ret'.value \in {"TRUE", "FALSE"}
          /\ init_ret'.value = "TRUE" =>
               /\ s_pc' = "live"
               /\ refcount' = 1 /\ ~disconnected'
               /\ address' # NULL /\ mutex' # NULL
               /\ registry'["watch"] # NULL /\ registry'["timeout"] # NULL
               /\ init_ret'.freed = {}
               /\ init_ret'.acquired =
                    {"guid_hex", "address", "mutex", "watches", "timeouts"}]_vars

\* the timeout list could not be created: the string, the address, the
\* mutex and the watch list were acquired, and all four released
C35_Witness ==
  /\ s_pc = "init_failed"
  /\ init_ret.value = "FALSE" /\ init_ret.step = "timeouts"
  /\ init_ret.freed = {"guid_hex", "address", "mutex", "watches"}
  /\ registry["watch"] = NULL

(***************************************************************************)
(* Claims about the rest of the interface (checked under SpecApi)          *)
(***************************************************************************)
\* thread t's stack with its top frame moved to `return' with result res
Returning(t, res) ==
  Append(SubSeq(stack[t], 1, Len(stack[t]) - 1),
         [Top(t) EXCEPT !.pc = "return", !.res = res])

\* C14: dbus_server_get_is_connected takes the lock and returns TRUE
\* exactly when disconnected is false at that moment, changing nothing; a
\* FALSE it returns means that a disconnect has set the flag.
C14_IsConnectedSnapshot ==
  /\ [][\A t \in Threads :
          (At(t, "get_is_connected", "entry") /\ stack'[t] # stack[t])
          => /\ lock_holder = {} /\ lock_holder' = {}
             /\ stack'[t] =
                  Returning(t, IF disconnected THEN "FALSE" ELSE "TRUE")
             /\ disconnected' = disconnected]_vars
  /\ [](\A t \in Threads :
          (At(t, "get_is_connected", "return") /\ Top(t).res = "FALSE")
          => disconnected)

\* one thread is returning the TRUE it read before the disconnect, the
\* other the FALSE it read after it
C14_Witness ==
  /\ disconnected /\ teardown_count = 1
  /\ \E t, u \in Threads :
       /\ At(t, "get_is_connected", "return") /\ Top(t).res = "TRUE"
       /\ At(u, "get_is_connected", "return") /\ Top(u).res = "FALSE"

PendingFree(n) ==
  {f \in FramesAt("set_new_connection_function", {"callout"}) :
     stack[f[1]][f[2]].old_data = n}

\* C16: the three new-connection fields are replaced together under the
\* lock; the destructor of the replaced triple, if it had one, is called on
\* the replaced data, once, by a step that follows the release of the lock;
\* every data value ever installed with a destructor is either still
\* installed, or in the hands of exactly one destructor call-out, or has
\* been destroyed exactly once, and data without a destructor is never
\* destroyed.
C16_OldDataDestroyedOnce ==
  /\ [](/\ new_connection_function = new_connection_data
        /\ new_connection_free_data_function \in {0, new_connection_data}
        /\ Len(destroyed) = Len(installs)
        /\ \A n \in 1..Len(installs) :
             LET current == IF new_connection_data = n THEN 1 ELSE 0 IN
               IF installs[n]
                 THEN current + Cardinality(PendingFree(n)) + destroyed[n] = 1
                 ELSE PendingFree(n) = {} /\ destroyed[n] = 0)
  /\ [][\A t \in Threads :
          (At(t, "set_new_connection_function", "entry")
             /\ stack'[t] # stack[t])
          => /\ lock_holder = {} /\ lock_holder' = {}
             /\ destroyed' \in {destroyed, Append(destroyed, 0)}
             /\ IF new_connection_free_data_function # 0
                  THEN /\ Len(stack'[t]) = Len(stack[t])
                       /\ stack'[t][Len(stack[t])].pc = "callout"
                       /\ stack'[t][Len(stack[t])].old_data =
                            new_connection_data
                  ELSE Len(stack'[t]) = Len(stack[t]) - 1]_vars

\* the triple installed with a destructor has been replaced by NULLs and
\* its destructor is running on its data, with the lock released, and has
\* called dbus_server_set_new_connection_function again
C16_Witness ==
  /\ s_pc = "live" /\ Alive
  /\ installs = <<TRUE>> /\ destroyed = <<0>>
  /\ new_connection_data = 0
  /\ \E t \in Threads :
       /\ Len(stack[t]) = 2
       /\ stack[t][1].op = "set_new_connection_function"
       /\ stack[t][1].pc = "callout"
       /\ stack[t][1].old_data = 1
       /\ stack[t][2].op = "set_new_connection_function"
       /\ stack[t][2].pc = "entry"
       /\ t \notin lock_holder

\* C17: in every state in which an application-supplied function is
\* executing (a watch or timeout function, or a destructor: the call-out is
\* the thread's innermost frame), that thread does not hold the server's
\* mutex.
C17_NoLockInCallout ==
  \A t \in Threads :
    (s_pc = "live" /\ Alive /\ stack[t] # <<>> /\ Top(t).pc = "callout")
    => t \notin lock_holder

\* the places of a call at which the thread takes the server's mutex
LockPoints ==
  {<<"disconnect", "entry">>, <<"backend", "lock">>,
   <<"protected_change", "relock">>, <<"set_functions", "entry">>,
   <<"set_functions", "relock">>, <<"get_is_connected", "entry">>,
   <<"get_address", "entry">>, <<"set_new_connection_function", "entry">>,
   <<"set_auth_mechanisms", "entry">>, <<"unref", "last">>}
  \cup (IF have_atomic_int THEN {}
        ELSE {<<"ref", "entry">>, <<"unref", "entry">>})

\* the places of a call at which the thread holds the mutex and goes on to
\* release it
CriticalPoints ==
  {<<"disconnect", "teardown">>, <<"disconnect", "unlock">>,
   <<"backend", "unlock">>, <<"protected_change", "entry">>}

\* thread t stands at one of the given places
StandsAt(t, points) ==
  stack[t] # <<>> /\ <<Top(t).op, Top(t).pc>> \in points

\* C20: no state is a deadlock: a thread that is about to take the server's
\* mutex, from the top level or from inside an application function, does
\* not hold that mutex itself, and whoever holds it is inside a critical
\* section that releases it.
C20_NoDeadlock ==
  (s_pc = "live" /\ Alive) =>
    \A t \in Threads :
      StandsAt(t, LockPoints) =>
        /\ t \notin lock_holder
        /\ \A u \in lock_holder : StandsAt(u, CriticalPoints)

\* C21: dbus_server_set_auth_mechanisms releases the server's mutex on every
\* return path: a call that has reached its return, with TRUE or with FALSE,
\* no longer holds the mutex, and a call returning FALSE has left the list
\* of mechanisms as it was.
C21_SetAuthMechanismsUnlocks ==
  /\ [](\A t \in Threads :
         (stack[t] # <<>> /\ Top(t).op = "set_auth_mechanisms"
            /\ Top(t).pc = "return")
         => t \notin lock_holder)
  /\ [][\A t \in Threads :
          (/\ At(t, "set_auth_mechanisms", "entry")
           /\ stack'[t] # <<>>
           /\ Top(t)'.pc = "return" /\ Top(t)'.res = "FALSE")
          => auth_mechanisms' = auth_mechanisms]_vars

(***************************************************************************)
(* Claims about the data slots (checked under SpecSlots)                   *)
(***************************************************************************)
\* thread t's step is the locked part of dbus_server_get_data
GetDataStep(t) ==
  /\ At(t, "get_data", "entry")
  /\ stack'[t] # stack[t]

\* thread t's step is the locked part of dbus_server_set_data
SetDataStep(t) ==
  /\ At(t, "set_data", "entry")
  /\ stack'[t] # stack[t]

\* thread t is between the SERVER_UNLOCK of dbus_server_set_data and the
\* end of the call of the previous destructor
InSetDataCallout(t) ==
  /\ stack[t] # <<>>
  /\ Top(t).op = "set_data"
  /\ Top(t).pc = "callout"

\* the places where data n is stored with a destructor
SlotStored(n) ==
  {p \in Servers \X SlotIds :
     /\ slot_list[p[1]][p[2]].data = n
     /\ slot_list[p[1]][p[2]].free_data_func # 0}

\* the calls of dbus_server_set_data about to destroy data n, or destroying
\* it: a destructor may itself be calling the library
SlotPending(n) ==
  {c \in {c \in Threads \X (1..(MaxReentry + 2)) : c[2] <= Len(stack[c[1]])} :
     LET f == stack[c[1]][c[2]] IN
       /\ f.op = "set_data" /\ f.pc = "callout"
       /\ f.old_free_func # 0 /\ f.old_data = n}

\* C22: dbus_server_set_data calls the destructor of the pair it replaces,
\* on the replaced data, once, after SERVER_UNLOCK; the locked step calls no
\* destructor (not the new pair's either), and when it stores nothing it
\* leaves the pair in place and calls nothing.  So data set with a destructor
\* is at any time stored in one place, about to be destroyed by one call, or
\* destroyed once.
C22_SetDataDestroysOutsideLock ==
  /\ [](/\ \A t \in Threads : InSetDataCallout(t) => t \notin lock_holder
        /\ \A n \in 1..Len(installs) :
             IF installs[n]
               THEN Cardinality(SlotStored(n)) + Cardinality(SlotPending(n))
                      + destroyed[n] = 1
               ELSE destroyed[n] = 0 /\ SlotPending(n) = {})
  /\ [][\A t \in Threads :
          /\ SetDataStep(t) =>
               /\ \A n \in 1..Len(destroyed) : destroyed'[n] = destroyed[n]
               /\ slot_list' = slot_list => stack' = Pop(t)
               /\ (InSetDataCallout(t)' /\ stack' # Pop(t)) =>
                    LET f == Top(t)' IN
                      /\ slot_list[f.server][f.slot] =
                           [data |-> f.old_data,
                            free_data_func |-> f.old_free_func]
                      /\ slot_list'[f.server][f.slot] #
                           slot_list[f.server][f.slot]
          /\ (InSetDataCallout(t) /\ Len(stack'[t]) < Len(stack[t])) =>
               /\ destroyed' =
                    [destroyed EXCEPT ![Top(t).old_data] = @ + 1]
               /\ slot_list' = slot_list]_vars

\* with the lock free, a call on server 1 is about to destroy data 1, which
\* it took out of the slot; nothing is destroyed yet
C22_Witness ==
  /\ lock_holder = {}
  /\ \E t \in Threads :
       /\ InSetDataCallout(t)
       /\ Top(t).server = 1
       /\ Top(t).old_data = 1
       /\ slot_list[1][Top(t).slot] = NoSlotData
  /\ SlotStored(1) = {}
  /\ destroyed = <<0>>

\* C23: dbus_server_get_data on an allocated slot returns the data of the
\* most recent successful dbus_server_set_data on that server and slot (NULL,
\* here 0, if there was none), and a dbus_server_set_data changes what is
\* stored under at most one slot of one server.
C23_GetDataReturnsLastSet ==
  [][\A t \in Threads :
       /\ (GetDataStep(t) =>
            /\ Top(t)'.pc = "return"
            /\ Top(t)'.slot \in AllocatedSlots
            /\ Top(t)'.res = last_set[Top(t)'.server][Top(t)'.slot])
       /\ (SetDataStep(t) =>
            \E s \in Servers, i \in AllocatedSlots :
              \A s2 \in Servers, i2 \in SlotIds :
                <<s2, i2>> # <<s, i>> =>
                  /\ slot_list'[s2][i2] = slot_list[s2][i2]
                  /\ last_set'[s2][i2] = last_set[s2][i2])]_vars

\* a get on server 2 and slot 1 is returning the data stored there, while
\* server 1 stores nothing under slot 1 and server 2 nothing under slot 0
C23_Witness ==
  /\ \E t \in Threads :
       /\ At(t, "get_data", "return")
       /\ Top(t).server = 2 /\ Top(t).slot = 1 /\ Top(t).res = 1
  /\ slot_list[2][1].data = 1
  /\ slot_list[1][1] = NoSlotData
  /\ slot_list[2][0] = NoSlotData
  /\ slot_p = [v \in SlotVars |-> IF v = "a" THEN 0 ELSE 1]

\* the step allocates a fresh id for slot variable v
FreshAllocation(v) == slot_p[v] = -1 /\ slot_p'[v] # -1

\* the step raises the reference count of an id
CountRaised ==
  /\ Len(slot_allocator') = Len(slot_allocator)
  /\ \E k \in 1..Len(slot_allocator) :
       slot_allocator'[k] > slot_allocator[k] /\ slot_allocator[k] > 0

\* C24: dbus_server_allocate_data_slot on a variable holding -1 writes back
\* an id no other variable holds and gives it the count 1, touching no other
\* variable or id; on a variable holding an id it leaves every variable
\* unchanged and adds one to that id's count.  So variables never share an id
\* and every id held has a positive count.
C24_AllocateFreshOrShare ==
  /\ [](\A v, w \in SlotVars :
          slot_p[v] >= 0 =>
            /\ slot_p[v] < Len(slot_allocator)
            /\ slot_allocator[slot_p[v] + 1] >= 1
            /\ (v # w => slot_p[v] # slot_p[w]))
  /\ [][/\ \A v \in SlotVars :
             FreshAllocation(v) =>
               /\ \A w \in SlotVars \ {v} :
                    slot_p'[w] = slot_p[w] /\ slot_p'[v] # slot_p[w]
               /\ slot_allocator'[slot_p'[v] + 1] = 1
               /\ \A k \in 1..Len(slot_allocator) :
                    k # slot_p'[v] + 1 =>
                      slot_allocator'[k] = slot_allocator[k]
        /\ CountRaised =>
             /\ slot_p' = slot_p
             /\ \E v \in SlotVars :
                  /\ slot_p[v] >= 0
                  /\ slot_allocator' =
                       [slot_allocator EXCEPT ![slot_p[v] + 1] = @ + 1]]_vars

\* both variables are allocated, with different ids, and variable a was
\* allocated twice
C24_Witness ==
  /\ slot_p = [v \in SlotVars |-> IF v = "a" THEN 0 ELSE 1]
  /\ slot_allocator = <<2, 1>>

\* the step lowers the reference count of an id
CountLowered ==
  \E k \in 1..Len(slot_allocator) : slot_allocator'[k] < slot_allocator[k]

\* what a step that lowers a count does: one held id's count goes down by
\* one; its variable is reset to -1 exactly when the count reaches zero, and
\* nothing else changes
FreedByOne ==
  \E v \in SlotVars :
    /\ slot_p[v] >= 0
    /\ slot_allocator' = [slot_allocator EXCEPT ![slot_p[v] + 1] = @ - 1]
    /\ slot_p' = [slot_p EXCEPT
                    ![v] = IF slot_allocator[slot_p[v] + 1] = 1 THEN -1
                           ELSE slot_p[v]]

C26_ReusedIdCarriesNoData ==
  [][\A v \in SlotVars :
       FreshAllocation(v) =>
         \A s \in Servers :
           _dbus_data_slot_list_get(GetDataList(s), slot_p'[v]) = 0]_vars

(***************************************************************************)
(* Claims about the data a server carries (checked under SpecStore)        *)
(***************************************************************************)
\* data n is carried by server 1 with a destructor: in its slot list or as
\* its new-connection data
CarriedWithDestructor(n) ==
  \/ \E i \in SlotIds :
       /\ slot_list[1][i].data = n
       /\ slot_list[1][i].free_data_func # 0
  \/ /\ new_connection_data = n
     /\ new_connection_free_data_function # 0

\* C27: the finalization of the server calls the destructor of every pair
\* its slot list still stores and of its new-connection data, each once, and
\* no other; no data is ever destroyed twice, so a pair replaced earlier,
\* whose destructor dbus_server_set_data called, is not destroyed again.
\* After it the server carries nothing.
C27_FinalizeDestroysOnce ==
  /\ [](/\ \A n \in 1..Len(destroyed) : destroyed[n] <= 1
        /\ s_pc = "finalized" =>
             /\ slot_list[1] = EmptySlotList
             /\ new_connection_data = 0
             /\ new_connection_free_data_function = 0)
  /\ [][(s_pc = "live" /\ s_pc' = "finalized") =>
          \A n \in 1..Len(destroyed) :
            destroyed'[n] =
              destroyed[n] + (IF CarriedWithDestructor(n) THEN 1 ELSE 0)]_vars

\* the server was finalized while slot 0 stored data 1 with its destructor,
\* which has been called once
C27_Witness ==
  /\ s_pc = "finalized"
  /\ installs = <<TRUE>>
  /\ last_set[1][0] = 1
  /\ new_connection_function = 0
  /\ destroyed = <<1>>
  /\ \A t \in Threads : stack[t] = <<>>

(***************************************************************************)
(* Claims about listening again (checked under SpecTest)                   *)
(***************************************************************************)
\* C28: for the server a successful listen returned, whose one reference
\* the caller keeps to itself, the disconnect leaves the server alive with
\* that one reference and the unref after it finalizes it, once; by then
\* the endpoint is released, so that no later listen, on the same address
\* or on another address of the same endpoint, fails: the test goes through
\* all its listens and returns.
C28_RelistenAfterRelease ==
  /\ []((t_pc = "unref" /\ stack[1] = <<>>) =>
          /\ s_pc = "live" /\ disconnected /\ refcount = 1
          /\ finalize_count = 0)
  /\ []((t_pc \in {"listen", "return", "done"} /\ stack[1] = <<>> /\ t_n > 0) =>
          /\ s_pc = "finalized" /\ finalize_count = 1
          /\ bound = {})
  /\ [](t_pc # "failed" /\ aborted = 0)
  /\ <>(t_pc = "done" /\ t_n = TestListens)

\* the second listen on the first address has succeeded, after the first
\* server on it was disconnected and released
C28_Witness ==
  /\ t_pc = "disconnect"
  /\ t_n = 2
  /\ s_pc = "live"
  /\ init_address = valid_addresses[1]
  /\ bound = {Endpoint(valid_addresses[1])}
  /\ refcount = 1

(***************************************************************************)
(* Claims about dbus_server_listen (checked under SpecListen)              *)
(***************************************************************************)
\* the positions in `calls' of the attempts with the given result
CallsWith(result) == {k \in 1..Len(calls) : calls[k][3] = result}

Returned == l_pc = "done"

\* C1: whenever dbus_server_listen returns, it returns either a server with
\* the caller's error clear, or NULL with the caller's error set (when an
\* error location was supplied); never a server with a set error, never NULL
\* with a clear error.
C1_ServerXorError ==
  Returned =>
    IF l_ret # NULL
      THEN /\ l_ret = l_server
           /\ \E k \in 1..Len(calls) : l_ret = ServerOf(calls[k][1], calls[k][2])
           /\ ~dbus_error_is_set(l_error)
      ELSE error_supplied => dbus_error_is_set(l_error)

\* a return of NULL with an error, after a scan in which every backend
\* of two entries was tried
C1_Witness ==
  /\ Returned /\ error_supplied
  /\ l_ret = NULL /\ dbus_error_is_set(l_error)
  /\ Len(calls) = 2 * N_listen_funcs

\* C2: once a backend attempt has returned OK, no further attempt is made,
\* for that entry or a later one, and listen returns that backend's server
\* with the error clear, even when earlier attempts returned did-not-connect.
C2_FirstOkWins ==
  \A k \in CallsWith(DBUS_SERVER_LISTEN_OK) :
    /\ k = Len(calls)
    /\ l_pc \in {"out", "ret", "done"}
    /\ l_server = ServerOf(calls[k][1], calls[k][2])
    /\ Returned => /\ l_ret = ServerOf(calls[k][1], calls[k][2])
                   /\ ~dbus_error_is_set(l_error)

\* a server returned from the second entry after a did-not-connect
C2_Witness ==
  /\ Returned
  /\ CallsWith(DBUS_SERVER_LISTEN_DID_NOT_CONNECT) # {}
  /\ \E k \in CallsWith(DBUS_SERVER_LISTEN_OK) :
       calls[k][1] = 1 /\ l_ret = ServerOf(1, calls[k][2])

\* C3 (as claimed): once a backend attempt has returned bad-address, no
\* further attempt is made and listen fails, returning NULL with exactly that
\* backend's error, even when an earlier attempt returned did-not-connect.
C3_BadAddressIsFinal ==
  \A k \in CallsWith(DBUS_SERVER_LISTEN_BAD_ADDRESS) :
    /\ k = Len(calls)
    /\ l_pc \in {"out", "ret", "done"}
    /\ Returned =>
         /\ l_ret = NULL
         /\ error_supplied =>
              l_error = [name |-> "org.freedesktop.DBus.Error.BadAddress",
                         msg |-> "backend",
                         at |-> <<calls[k][1], calls[k][2]>>]

\* C4: when no attempt returned OK or bad-address and at least one returned
\* did-not-connect, every backend of every entry was tried, listen returns
\* NULL, and the error is that of the first did-not-connect attempt in scan
\* order.
C4_FirstConnectErrorReported ==
  LET dnc == CallsWith(DBUS_SERVER_LISTEN_DID_NOT_CONNECT)
      first == CHOOSE k \in dnc : \A m \in dnc : k <= m
  IN  (/\ l_pc \in {"ret", "done", "abort"}
       /\ CallsWith(DBUS_SERVER_LISTEN_OK) = {}
       /\ CallsWith(DBUS_SERVER_LISTEN_BAD_ADDRESS) = {}
       /\ dnc # {})
      => /\ Len(calls) = len * N_listen_funcs
         /\ \A k \in 1..Len(calls) :
              calls[k][1] = (k - 1) \div N_listen_funcs
              /\ calls[k][2] = (k - 1) % N_listen_funcs
         /\ l_pc # "abort"
         /\ Returned =>
              /\ l_ret = NULL
              /\ error_supplied =>
                   l_error.at = <<calls[first][1], calls[first][2]>>
                   /\ l_error.msg = "backend"

\* two did-not-connect attempts in different entries, the first reported
C4_Witness ==
  /\ Returned /\ error_supplied
  /\ CallsWith(DBUS_SERVER_LISTEN_OK) = {}
  /\ CallsWith(DBUS_SERVER_LISTEN_BAD_ADDRESS) = {}
  /\ \E k, m \in CallsWith(DBUS_SERVER_LISTEN_DID_NOT_CONNECT) :
       /\ calls[k][1] = 0 /\ calls[m][1] = 1
       /\ l_error.at = <<0, calls[k][2]>>
       /\ \A n \in CallsWith(DBUS_SERVER_LISTEN_DID_NOT_CONNECT) : k <= n

\* C5: a parsed address with no entries fails with the bad-address error
\* "Empty address"; one with entries all of whose attempts returned
\* not-handled fails with the bad-address error "Unknown address type" naming
\* the first entry's method; and neither error is reported when some attempt
\* returned did-not-connect.
C5_UnhandledAddressErrors ==
  (Returned /\ parsed = "ok") =>
    /\ len = 0 =>
         /\ l_ret = NULL /\ calls = <<>>
         /\ error_supplied =>
              /\ l_error.name = "org.freedesktop.DBus.Error.BadAddress"
              /\ l_error.msg = "Empty address ''"
    /\ (len > 0 /\ CallsWith(DBUS_SERVER_LISTEN_NOT_HANDLED) = 1..Len(calls)) =>
         /\ l_ret = NULL
         /\ Len(calls) = len * N_listen_funcs
         /\ error_supplied =>
              /\ l_error.name = "org.freedesktop.DBus.Error.BadAddress"
              /\ l_error.msg = "Unknown address type '" \o entries[1] \o "'"
    /\ CallsWith(DBUS_SERVER_LISTEN_DID_NOT_CONNECT) # {} =>
         l_error.at # <<>> \/ l_error = NoError

\* two entries with different methods, nobody handled either
C5_Witness ==
  /\ Returned /\ error_supplied /\ parsed = "ok"
  /\ len = 2 /\ entries[1] # entries[2]
  /\ CallsWith(DBUS_SERVER_LISTEN_NOT_HANDLED) = 1..Len(calls)
  /\ l_error.msg = "Unknown address type '" \o entries[1] \o "'"

\* C6: when the address parser fails, listen returns NULL at once with the
\* parser's error, and no listener backend is ever invoked.
C6_ParseFailureReturnsAtOnce ==
  parsed = "failed" =>
    /\ Returned
    /\ l_ret = NULL
    /\ calls = <<>>
    /\ entries_freed = 0
    /\ error_supplied =>
         /\ l_error.name = "org.freedesktop.DBus.Error.BadAddress"
         /\ l_error.msg = "parse"

\* the parser failed and the caller holds its error
C6_Witness ==
  /\ parsed = "failed" /\ Returned /\ error_supplied
  /\ l_error = ParseError

\* the attempts made for entry i, in the order made
AttemptsFor(i) == SelectSeq(calls, LAMBDA c : c[1] = i)

\* the backends tried for entry i, in the order tried
BackendsTriedFor(i) ==
  [k \in 1..Len(AttemptsFor(i)) |-> listen_funcs[AttemptsFor(i)[k][2] + 1]]

\* C32: dbus_server_listen attempts backends in entry-major order: for each
\* entry the socket backend, then the platform-specific one, then the
\* debug-pipe one, each at most once; the entries are taken in order, and no
\* backend is tried for a later entry before every backend of each earlier
\* entry has returned not-handled or did-not-connect.
C32_EntryMajorOrder ==
  /\ \A i \in 0..(MaxEntries + 1) :
       BackendsTriedFor(i) =
         SubSeq(<<"_dbus_server_listen_socket",
                  "_dbus_server_listen_platform_specific",
                  "_dbus_server_listen_debug_pipe">>,
                1, Len(AttemptsFor(i)))
  /\ \A k, n \in 1..Len(calls) : k < n => calls[k][1] <= calls[n][1]
  /\ \A n \in 1..Len(calls) : calls[n][1] < len /\ calls[n][1] >= 0
  /\ \A n \in 1..Len(calls) : \A i \in 0..(calls[n][1] - 1) :
       \A j \in 0..2 :
         \E k \in 1..(n - 1) :
           /\ calls[k][1] = i /\ calls[k][2] = j
           /\ calls[k][3] \in {DBUS_SERVER_LISTEN_NOT_HANDLED,
                               DBUS_SERVER_LISTEN_DID_NOT_CONNECT}

\* the second entry's platform-specific backend is reached after the first
\* entry's backends returned did-not-connect, not-handled and
\* did-not-connect, and the second entry's socket backend not-handled
C32_Witness ==
  /\ Len(calls) = 5
  /\ calls[1] = <<0, 0, DBUS_SERVER_LISTEN_DID_NOT_CONNECT>>
  /\ calls[2] = <<0, 1, DBUS_SERVER_LISTEN_NOT_HANDLED>>
  /\ calls[3] = <<0, 2, DBUS_SERVER_LISTEN_DID_NOT_CONNECT>>
  /\ calls[4] = <<1, 0, DBUS_SERVER_LISTEN_NOT_HANDLED>>
  /\ calls[5] = <<1, 1, DBUS_SERVER_LISTEN_OK>>

\* a step that reads the parsed entries: a backend attempt is handed
\* entries[i] (line 506), and the `out' label reads entries[0] for the
\* "Unknown address type" error (line 559)
ReadsEntries ==
  \/ calls' # calls
  \/ l_pc = "out" /\ l_pc' # "out" /\ ~handled_once /\ len > 0

\* C33: on every return of dbus_server_listen on which parsing succeeded
\* the parsed entries have been freed exactly once; they are never freed a
\* second time and no step reads them once they are freed.
C33_EntriesFreedOnce ==
  /\ []((Returned /\ parsed = "ok") => entries_freed = 1)
  /\ [](entries_freed \in {0, 1})
  /\ [][/\ entries_freed' \in {entries_freed, entries_freed + 1}
        /\ ReadsEntries => entries_freed = 0]_vars

\* a return with the backend's bad-address error, the entries freed once
C33_Witness ==
  /\ Returned /\ parsed = "ok" /\ entries_freed = 1
  /\ l_ret = NULL
  /\ calls = <<<<0, 0, DBUS_SERVER_LISTEN_BAD_ADDRESS>>>>

\* C34: when dbus_server_listen returns, on every path, the remembered first
\* did-not-connect error is no longer held.
C34_FirstConnectErrorReleased ==
  Returned => ~dbus_error_is_set(first_connect_error)

====
